---------------------------- MODULE Spec2Model ----------------------------
(***************************************************************************)
(* A state-machine model of the hypercraft vCPU run loops.                 *)
(*                                                                         *)
(* x86-64 part: one VmxVcpu (src/arch/x86_64/vmx/vcpu.rs) together with    *)
(* the VMX hardware state its code reads and writes: the logical           *)
(* processor's current-VMCS pointer, the VMCS regions of this vCPU and of  *)
(* a sibling vCPU, XCR0 and IA32_XSS.  64-bit register values are sets of  *)
(* bit positions (bit i set  <=>  i is in the set).                        *)
(***************************************************************************)
EXTENDS Naturals, Sequences, FiniteSets

(***************************************************************************)
(* Bounds of the model.                                                    *)
(***************************************************************************)
\* number of events ever queued on the vCPU (queue_event and EXCEPTION_NMI)
MaxQueued == 2

(***************************************************************************)
(* Option<T> as a sequence of length at most one.                          *)
(***************************************************************************)
None == <<>>
Some(x) == <<x>>

(***************************************************************************)
(* 64-bit values as sets of bit positions.                                 *)
(***************************************************************************)
\* BitField::get_bits(0..32)
get_bits_0_32(r) == {b \in r : b < 32}
\* `<< 32` on a u64
shl_32(r) == {b + 32 : b \in {c \in r : c + 32 < 64}}
\* `as u32 as usize`: zero-extension of a 32-bit result
from_u32(r) == {b \in r : b < 32}

(***************************************************************************)
(* x86::controlregs::Xcr0 flags (bit positions).                           *)
(***************************************************************************)
XCR0_FPU_MMX_STATE == 0
XCR0_SSE_STATE == 1
XCR0_AVX_STATE == 2
XCR0_BNDREG_STATE == 3
XCR0_BNDCSR_STATE == 4
XCR0_OPMASK_STATE == 5
XCR0_ZMM_HI256_STATE == 6
XCR0_HI16_ZMM_STATE == 7
XCR0_PKRU_STATE == 9
Xcr0_all ==
  { XCR0_FPU_MMX_STATE, XCR0_SSE_STATE, XCR0_AVX_STATE, XCR0_BNDREG_STATE,
    XCR0_BNDCSR_STATE, XCR0_OPMASK_STATE, XCR0_ZMM_HI256_STATE,
    XCR0_HI16_ZMM_STATE, XCR0_PKRU_STATE }
\* Xcr0::from_bits: None when a bit outside the flag set is set
Xcr0_from_bits(value) == IF value \subseteq Xcr0_all THEN Some(value) ELSE None

(***************************************************************************)
(* PrimaryControls bits.                                                   *)
(***************************************************************************)
INTERRUPT_WINDOW_EXITING == 2
UNCOND_IO_EXITING == 24
USE_MSR_BITMAPS == 28
SECONDARY_CONTROLS == 31

(***************************************************************************)
(* VMCS regions and the current-VMCS pointer.                              *)
(***************************************************************************)
SelfVmcs == "self"
OtherVmcs == "other"
VmcsIds == {SelfVmcs, OtherVmcs}
NoVmcs == "none"

\* RFLAGS written by setup_vmcs_guest is 0x2: IF (bit 9) clear
RFLAGS_IF == 9
InitRflags == {1}

VARIABLES
  launched,         \* VmxVcpu.launched
  pending_events,   \* VmxVcpu.pending_events, a sequence of <<vector, err_code>>
  guest_regs,       \* VmxVcpu.guest_regs: rax, rbx, rcx, rdx
  xstate,           \* VmxVcpu.xstate: host_xcr0, guest_xcr0, host_xss, guest_xss
  cur,              \* the logical processor's current-VMCS pointer
  vmcs,             \* the VMCS regions, by id
  xcr0,             \* the processor's XCR0
  xss,              \* the processor's IA32_XSS
  panic,            \* "none", or the panic that ended the program
  vendor_regs_trap, \* the build: whether the cast of VENDOR_STR to [u32; 3] traps
  ret,              \* what the last call of run returned
  queued,           \* history: every event ever pushed on pending_events
  injected,         \* history: every event handed to vmcs::inject_event and popped
  run_calls,        \* history: calls of run so far: 0, 1, then 2 and 3 in turn
  ever_entered,     \* history: some guest entry has succeeded
  last,             \* history: what the last call of run did
  mux,              \* history: position in the call pattern new; (bind; run; unbind)*
  vm,               \* RISC-V: the VM (vcpus, plic, state, timer, input_buffer)
  vm_log            \* RISC-V history: calls of VM::run and their iterations

\* the variables of the x86 vCPU
vcpu_vars == << launched, pending_events, guest_regs, xstate, cur, vmcs, xcr0,
                xss, panic, vendor_regs_trap, ret, queued, injected,
                run_calls, ever_entered, last, mux >>
vars == << vcpu_vars, vm, vm_log >>

(***************************************************************************)
(* The whole state as one record, so that each function of the source is   *)
(* an operator from state to state.  `res` is the HyperResult of the call  *)
(* just made ("Ok" or the error), `handled` the Option returned by         *)
(* builtin_vmexit_handler, `feasible` whether the hardware can produce the *)
(* exit that was asked of it.                                              *)
(***************************************************************************)
St ==
  [ launched |-> launched, pending_events |-> pending_events,
    guest_regs |-> guest_regs, xstate |-> xstate, cur |-> cur, vmcs |-> vmcs,
    xcr0 |-> xcr0, xss |-> xss, panic |-> panic,
    vendor_regs_trap |-> vendor_regs_trap, ret |-> ret,
    queued |-> queued, injected |-> injected, run_calls |-> run_calls,
    ever_entered |-> ever_entered, last |-> last, mux |-> mux,
    res |-> "Ok", handled |-> FALSE, feasible |-> TRUE ]

Commit(s) ==
  /\ launched' = s.launched
  /\ pending_events' = s.pending_events
  /\ guest_regs' = s.guest_regs
  /\ xstate' = s.xstate
  /\ cur' = s.cur
  /\ vmcs' = s.vmcs
  /\ xcr0' = s.xcr0
  /\ xss' = s.xss
  /\ panic' = s.panic
  /\ vendor_regs_trap' = s.vendor_regs_trap
  /\ ret' = s.ret
  /\ queued' = s.queued
  /\ injected' = s.injected
  /\ run_calls' = s.run_calls
  /\ ever_entered' = s.ever_entered
  /\ last' = s.last
  /\ mux' = s.mux
  /\ UNCHANGED << vm, vm_log >>

Ok(s) == [s EXCEPT !.res = "Ok"]
Err(s, e) == [s EXCEPT !.res = e]
Panic(s, why) == [s EXCEPT !.panic = why]
\* Result::unwrap: panics on Err
unwrap(s, why) == IF s.panic = "none" /\ s.res # "Ok" THEN Panic(s, why) ELSE s
\* the history counter of calls: 0, 1, 2, 3, 2, 3, ... (every call changes it)
Bump(n) == IF n < 3 THEN n + 1 ELSE 2

(***************************************************************************)
(* VMX hardware.                                                           *)
(***************************************************************************)
\* VMREAD / VMWRITE fail (VMfailInvalid) when there is no current VMCS and
\* otherwise act on the current VMCS, whichever vCPU it belongs to.
vmcs_accessible(s) == s.cur # NoVmcs
vmread(s, field) == s.vmcs[s.cur][field]
vmwrite(s, field, value) ==
  IF vmcs_accessible(s)
    THEN Ok([s EXCEPT !.vmcs[s.cur][field] = value])
    ELSE Err(s, "VmFail")

\* VMPTRLD: the region becomes the current VMCS
vmptrld(s, id) == Ok([s EXCEPT !.cur = id])
\* VMCLEAR: the region's launch state becomes clear; if it was the current
\* VMCS, the current-VMCS pointer becomes invalid
vmclear(s, id) ==
  Ok([s EXCEPT !.vmcs[id].launch_state = "clear",
               !.cur = IF s.cur = id THEN NoVmcs ELSE s.cur])

\* VMLAUNCH needs a current VMCS whose launch state is clear, VMRESUME one
\* whose launch state is launched
vm_instruction_fails(s, instr) ==
  \/ ~vmcs_accessible(s)
  \/ instr = "vmlaunch" /\ vmread(s, "launch_state") # "clear"
  \/ instr = "vmresume" /\ vmread(s, "launch_state") # "launched"

\* whether the guest's interrupts are unblocked in the outcome g
GuestOpen(g) == RFLAGS_IF \in g.rflags /\ g.interruptibility = 0

\* With interrupt-window exiting set in the current VMCS, "a VM exit occurs
\* at the beginning of any instruction if RFLAGS.IF = 1 and there are no
\* other blocking of interrupts": the guest leaves with its interrupts
\* unblocked by an INTERRUPT_WINDOW exit, and without the control there is
\* no such exit.  An NMI (vector 2), which setup_vmcs_control makes a VM
\* exit, is taken before the window exit.
exit_feasible(s, g) ==
  LET window == INTERRUPT_WINDOW_EXITING \in vmread(s, "primary_ctls") IN
  /\ g.reason = "INTERRUPT_WINDOW" => window /\ GuestOpen(g) /\ ~g.entry_failure
  /\ window /\ GuestOpen(g) /\ ~g.entry_failure =>
       \/ g.reason = "INTERRUPT_WINDOW"
       \/ g.reason = "EXCEPTION_NMI" /\ g.vector = 2

(***************************************************************************)
(* VmxVcpu: accessors and the pending-event queue.                         *)
(***************************************************************************)
\* bind_to_current_processor
bind_to_current_processor(s, id) == vmptrld(s, id)
\* unbind_from_current_processor
unbind_from_current_processor(s, id) == vmclear(s, id)

\* advance_rip: RIP.write(RIP.read()? + instr_len)
advance_rip(s, instr_len) ==
  IF ~vmcs_accessible(s) THEN Err(s, "VmFail")
  ELSE vmwrite(s, "rip", vmread(s, "rip") + instr_len)

\* VecDeque::push_back, front, pop_front
push_back(q, e) == Append(q, e)
front(q) == IF q = <<>> THEN None ELSE Some(Head(q))
\* mutant: the tail is dropped instead of the head
pop_back(q) == IF q = <<>> THEN q ELSE SubSeq(q, 1, Len(q) - 1)
pop_front(q) == IF q = <<>> THEN q ELSE Tail(q)

\* mutant: the event goes to the head of the queue
queue_event_front(s, vector, err_code) ==
  [s EXCEPT !.pending_events = << <<vector, err_code>> >> \o @,
            !.queued = Append(@, <<vector, err_code>>)]
\* queue_event
queue_event(s, vector, err_code) ==
  [s EXCEPT !.pending_events = push_back(@, <<vector, err_code>>),
            !.queued = Append(@, <<vector, err_code>>)]

\* set_interrupt_window: read-modify-write of the primary controls
set_interrupt_window(s, enable) ==
  IF ~vmcs_accessible(s) THEN Err(s, "VmFail")
  ELSE LET ctrl == vmread(s, "primary_ctls")
           bits == {INTERRUPT_WINDOW_EXITING}
       IN vmwrite(s, "primary_ctls",
                  IF enable THEN ctrl \cup bits ELSE ctrl \ bits)

\* allow_interrupt (its two VMCS reads are unwrapped: see inject_pending_events)
allow_interrupt(s) ==
  LET rflags == vmread(s, "rflags")
      block_state == vmread(s, "interruptibility")
  IN RFLAGS_IF \in rflags /\ block_state = 0

\* vmcs::inject_event: the event becomes the VM-entry interruption
\* information of the current VMCS, delivered by the next VM entry
inject_event(s, vector, err_code) ==
  vmwrite(s, "entry_intr_info", Some(<<vector, err_code>>))

\* mutant: only exceptions are injected
event_injectable_exceptions_only(s, event) == event[1] < 32
\* mutant: every event is injected, blocked or not
event_injectable_always(s, event) == TRUE
\* mutant: exceptions are gated like interrupts
event_injectable_when_unblocked(s, event) == allow_interrupt(s)
\* the condition of inject_pending_events: `event.0 < 32 || self.allow_interrupt()`
event_injectable(s, event) == event[1] < 32 \/ allow_interrupt(s)

\* mutant: injecting the head also turns interrupt-window exiting off
inject_pending_events_disarms(s) ==
  IF front(s.pending_events) # None
    THEN LET event == front(s.pending_events)[1] IN
      IF event[1] >= 32 /\ ~vmcs_accessible(s)
        THEN Panic(s, "allow_interrupt: unwrap on a failed VMCS read")
      ELSE IF event_injectable(s, event)
        THEN LET a == inject_event(s, event[1], event[2])
                 b == IF a.res # "Ok" THEN a ELSE set_interrupt_window(a, FALSE)
             IN
          IF b.res # "Ok" THEN b
          ELSE Ok([b EXCEPT !.pending_events = pop_front(@),
                            !.injected = Append(@, event),
                            !.last.injected = Some(event),
                            !.last.open_at_injection = allow_interrupt(s)])
      ELSE LET a == set_interrupt_window(s, TRUE) IN
          IF a.res # "Ok" THEN a ELSE Ok([a EXCEPT !.last.armed = TRUE])
    ELSE Ok(s)
\* inject_pending_events
inject_pending_events(s) ==
  IF front(s.pending_events) # None
    THEN LET event == front(s.pending_events)[1] IN
      IF event[1] >= 32 /\ ~vmcs_accessible(s)
        THEN Panic(s, "allow_interrupt: unwrap on a failed VMCS read")
      ELSE IF event_injectable(s, event)
        THEN LET a == inject_event(s, event[1], event[2]) IN
          IF a.res # "Ok" THEN a
          ELSE Ok([a EXCEPT !.pending_events = pop_front(@),
                            !.injected = Append(@, event),
                            !.last.injected = Some(event),
                            !.last.open_at_injection = allow_interrupt(s)])
      ELSE LET a == set_interrupt_window(s, TRUE) IN
          IF a.res # "Ok" THEN a ELSE Ok([a EXCEPT !.last.armed = TRUE])
    ELSE Ok(s)

(***************************************************************************)
(* Extended state.                                                         *)
(***************************************************************************)
\* load_guest_xstate
load_guest_xstate(s) ==
  [s EXCEPT !.xcr0 = s.xstate.guest_xcr0, !.xss = s.xstate.guest_xss]
\* mutant: the host's values are not written back
load_host_xstate_skipped(s) == s
\* mutant: the host's values are taken anew from the processor
load_host_xstate_resnapshot(s) ==
  [s EXCEPT !.xstate.host_xcr0 = s.xcr0, !.xstate.host_xss = s.xss]
\* load_host_xstate
load_host_xstate(s) ==
  [s EXCEPT !.xcr0 = s.xstate.host_xcr0, !.xss = s.xstate.host_xss]

\* the validation closure of handle_xsetbv, applied to the flags x
\* mutant: the rule that AVX needs SSE is missing
xcr0_rules_avx_alone(x) ==
  IF XCR0_FPU_MMX_STATE \notin x THEN None
  ELSE IF (XCR0_BNDCSR_STATE \in x) # (XCR0_BNDREG_STATE \in x) THEN None
  ELSE IF /\ \/ XCR0_OPMASK_STATE \in x
             \/ XCR0_ZMM_HI256_STATE \in x
             \/ XCR0_HI16_ZMM_STATE \in x
          /\ \/ XCR0_AVX_STATE \notin x
             \/ XCR0_OPMASK_STATE \notin x
             \/ XCR0_ZMM_HI256_STATE \notin x
             \/ XCR0_HI16_ZMM_STATE \notin x
    THEN None
  ELSE Some(x)
xcr0_rules(x) ==
  IF XCR0_FPU_MMX_STATE \notin x THEN None
  ELSE IF XCR0_AVX_STATE \in x /\ XCR0_SSE_STATE \notin x THEN None
  ELSE IF (XCR0_BNDCSR_STATE \in x) # (XCR0_BNDREG_STATE \in x) THEN None
  ELSE IF /\ \/ XCR0_OPMASK_STATE \in x
             \/ XCR0_ZMM_HI256_STATE \in x
             \/ XCR0_HI16_ZMM_STATE \in x
          /\ \/ XCR0_AVX_STATE \notin x
             \/ XCR0_OPMASK_STATE \notin x
             \/ XCR0_ZMM_HI256_STATE \notin x
             \/ XCR0_HI16_ZMM_STATE \notin x
    THEN None
  ELSE Some(x)

\* `Xcr0::from_bits(value).and_then(|x| ...)`
xcr0_checked(value) ==
  LET x == Xcr0_from_bits(value) IN IF x = None THEN None ELSE xcr0_rules(x[1])

\* mutant: the registers are taken whole, not by their low 32 bits
xsetbv_value_unmasked(regs) == shl_32(regs.rdx) \cup regs.rax
\* `rdx.get_bits(0..32) << 32 | rax.get_bits(0..32)`
xsetbv_value(regs) == shl_32(get_bits_0_32(regs.rdx)) \cup get_bits_0_32(regs.rax)
\* `rcx.get_bits(0..32)`
xsetbv_index(regs) == get_bits_0_32(regs.rcx)
XCR_XCR0 == {}
VM_EXIT_INSTR_LEN_XSETBV == 3

\* handle_xsetbv
handle_xsetbv(s) ==
  LET index == xsetbv_index(s.guest_regs)
      value == xsetbv_value(s.guest_regs)
  IN IF index = XCR_XCR0
       THEN LET x == xcr0_checked(value) IN
         IF x = None THEN Err(s, "InvalidParam")
         ELSE advance_rip([s EXCEPT !.xstate.guest_xcr0 = x[1]],
                          VM_EXIT_INSTR_LEN_XSETBV)
       ELSE Err(s, "NotSupported")

(***************************************************************************)
(* CPUID emulation.  host is the CpuIdResult the processor gives for the   *)
(* guest's leaf and sub-leaf.                                              *)
(***************************************************************************)
BitsOfByte(n) == {b \in 0..7 : (n \div (2 ^ b)) % 2 = 1}
\* four bytes read as a little-endian u32
le_u32(b0, b1, b2, b3) ==
  BitsOfByte(b0) \cup {b + 8 : b \in BitsOfByte(b1)}
    \cup {b + 16 : b \in BitsOfByte(b2)} \cup {b + 24 : b \in BitsOfByte(b3)}
\* b"RVMRVMRVMRVM" as [u32; 3]  (R = 82, V = 86, M = 77).  The source makes
\* a reference to [u32; 3] out of the address of the byte string, which has
\* alignment 1: where the string is not placed on a multiple of 4 that
\* reference is undefined behaviour.  x86 reads the three words all the same;
\* a build with debug assertions checks the alignment of the dereference and
\* panics.  vendor_regs_trap says which of the two this build does.
vendor_regs == << le_u32(82, 86, 77, 82), le_u32(86, 77, 82, 86), le_u32(77, 82, 86, 77) >>
LEAF_FEATURE_INFO == {0}
LEAF_STRUCTURED_EXTENDED_FEATURE_FLAGS_ENUMERATION == {0, 1, 2}
LEAF_PROCESSOR_EXTENDED_STATE_ENUMERATION == {0, 2, 3}
LEAF_HYPERVISOR_INFO == {30}
LEAF_HYPERVISOR_FEATURE == {0, 30}
FEATURE_VMX == {5}
FEATURE_HYPERVISOR == {31}
VM_EXIT_INSTR_LEN_CPUID == 2

\* mutant: leaf 0x1 sets the hypervisor bit but leaves the VMX bit
cpuid_result_keeps_vmx(regs_clone, host) ==
  LET function == from_u32(regs_clone.rax) IN
  IF function = LEAF_FEATURE_INFO
    THEN [host EXCEPT !.ecx = @ \cup FEATURE_HYPERVISOR]
  ELSE IF function = LEAF_HYPERVISOR_INFO
    THEN [eax |-> LEAF_HYPERVISOR_FEATURE, ebx |-> vendor_regs[1],
          ecx |-> vendor_regs[2], edx |-> vendor_regs[3]]
  ELSE IF function = LEAF_HYPERVISOR_FEATURE
    THEN [eax |-> {}, ebx |-> {}, ecx |-> {}, edx |-> {}]
  ELSE host
\* the `res` of handle_cpuid
cpuid_result(regs_clone, host) ==
  LET function == from_u32(regs_clone.rax) IN
  IF function = LEAF_FEATURE_INFO
    THEN [host EXCEPT !.ecx = (@ \ FEATURE_VMX) \cup FEATURE_HYPERVISOR]
  ELSE IF function = LEAF_STRUCTURED_EXTENDED_FEATURE_FLAGS_ENUMERATION
    THEN IF regs_clone.rcx = {} THEN [host EXCEPT !.ecx = @ \ {5}] ELSE host
  ELSE IF function = LEAF_PROCESSOR_EXTENDED_STATE_ENUMERATION
    THEN host
  ELSE IF function = LEAF_HYPERVISOR_INFO
    THEN [eax |-> LEAF_HYPERVISOR_FEATURE, ebx |-> vendor_regs[1],
          ecx |-> vendor_regs[2], edx |-> vendor_regs[3]]
  ELSE IF function = LEAF_HYPERVISOR_FEATURE
    THEN [eax |-> {}, ebx |-> {}, ecx |-> {}, edx |-> {}]
  ELSE host

\* the LEAF_PROCESSOR_EXTENDED_STATE_ENUMERATION arm of handle_cpuid:
\* load_guest_xstate, cpuid!, load_host_xstate
cpuid_with_guest_xstate(s) ==
  LET a == load_guest_xstate(s)
      b == [a EXCEPT !.last.cpuid_xcr0 = Some(a.xcr0),
                     !.last.cpuid_xss = Some(a.xss)]
  IN load_host_xstate(b)

\* handle_cpuid
handle_cpuid(s, host) ==
  IF s.vendor_regs_trap THEN Panic(s, "misaligned pointer dereference")
  ELSE
  LET regs_clone == s.guest_regs
      function == from_u32(regs_clone.rax)
      res == cpuid_result(regs_clone, host)
      a == IF function = LEAF_PROCESSOR_EXTENDED_STATE_ENUMERATION
             THEN cpuid_with_guest_xstate(s) ELSE s
      b == [a EXCEPT !.guest_regs =
              [rax |-> from_u32(res.eax), rbx |-> from_u32(res.ebx),
               rcx |-> from_u32(res.ecx), rdx |-> from_u32(res.edx)]]
  IN advance_rip(b, VM_EXIT_INSTR_LEN_CPUID)

(***************************************************************************)
(* Guest entry and exit.  g is what the guest does once entered: the exit  *)
(* it ends with and the guest state saved at that exit.                    *)
(***************************************************************************)
\* exit_info
exit_info(s, g) ==
  [exit_reason |-> g.reason, entry_failure |-> g.entry_failure,
   guest_rip |-> vmread(s, "rip")]

\* vmx_entry_with!: the entry instruction, then either `jmp failed`
\* (vmx_entry_failed panics) or the guest runs until a VM exit and vmx_exit
\* returns to the caller of vmx_launch / vmx_resume
vmx_entry_with(s, instr, g) ==
  LET a == [s EXCEPT !.last.instr = instr] IN
  IF vm_instruction_fails(a, instr) THEN Panic(a, "vmx_entry_failed")
  ELSE IF ~exit_feasible(a, g) THEN [a EXCEPT !.feasible = FALSE]
  ELSE IF g.entry_failure THEN a
  ELSE [a EXCEPT
          !.vmcs[a.cur] = [@ EXCEPT !.launch_state = "launched",
                                    !.entry_intr_info = None,
                                    !.rip = g.rip,
                                    !.rflags = g.rflags,
                                    !.interruptibility = g.interruptibility],
          !.guest_regs = g.regs,
          !.ever_entered = TRUE,
          !.last.entered = TRUE,
          !.last.delivered = vmread(a, "entry_intr_info"),
          !.last.entry_xcr0 = Some(a.xcr0),
          !.last.entry_xss = Some(a.xss),
          !.last.entry_window =
              INTERRUPT_WINDOW_EXITING \in vmread(a, "primary_ctls"),
          !.last.exit_rip = Some(g.rip),
          !.last.exit_regs = Some(g.regs),
          !.last.exit_vector =
              IF g.reason = "EXCEPTION_NMI" THEN Some(g.vector) ELSE None,
          !.last.host_cpuid = Some(g.host_cpuid)]
\* vmx_launch
vmx_launch(s, g) == vmx_entry_with(s, "vmlaunch", g)
\* vmx_resume
vmx_resume(s, g) == vmx_entry_with(s, "vmresume", g)

\* mutant: the handler leaves interrupt-window exiting as it is
handle_interrupt_window_keep(s) == Ok(s)
\* the INTERRUPT_WINDOW arm of builtin_vmexit_handler
handle_interrupt_window(s) == set_interrupt_window(s, FALSE)

\* builtin_vmexit_handler: `handled` is whether it returned Some(result),
\* `res` that result
\* mutant: every exit is taken as handled, and nothing is done for it
builtin_vmexit_handler_swallows(s, info, g) == [Ok(s) EXCEPT !.handled = TRUE]
\* mutant: the exception is reflected before the entry-failure bit is tested
builtin_vmexit_handler_reflects_first(s, info, g) ==
  LET a == IF info.exit_reason = "EXCEPTION_NMI"
             THEN queue_event(s, g.vector, None) ELSE s
  IN IF info.entry_failure THEN Panic(a, "VM entry failed")
     ELSE IF info.exit_reason = "CR_ACCESS"
       THEN Panic(a, "Guest's access to cr not allowed")
     ELSE [Ok(a) EXCEPT !.handled = info.exit_reason = "EXCEPTION_NMI"]
\* builtin_vmexit_handler
builtin_vmexit_handler(s, info, g) ==
  IF info.entry_failure THEN Panic(s, "VM entry failed")
  ELSE IF info.exit_reason = "INTERRUPT_WINDOW"
    THEN [handle_interrupt_window(s) EXCEPT !.handled = TRUE]
  ELSE IF info.exit_reason = "XSETBV"
    THEN [handle_xsetbv(s) EXCEPT !.handled = TRUE]
  ELSE IF info.exit_reason = "CR_ACCESS"
    THEN Panic(s, "Guest's access to cr not allowed")
  ELSE IF info.exit_reason = "EXCEPTION_NMI"
    THEN [Ok(queue_event(s, g.vector, None)) EXCEPT !.handled = TRUE]
  ELSE IF info.exit_reason = "CPUID"
    THEN [handle_cpuid(s, g.host_cpuid) EXCEPT !.handled = TRUE]
  ELSE [Ok(s) EXCEPT !.handled = FALSE]

\* mutant: the flag is never set
set_launched_never(s) == s
\* `self.launched = true`
set_launched(s) == [s EXCEPT !.launched = TRUE]
\* `VmcsHostNW::RSP.write(&self.host_stack_top ...)`
write_host_rsp(s) == vmwrite(s, "host_rsp", Some(SelfVmcs))

BlankLast ==
  [instr |-> "none", injected |-> None, open_at_injection |-> FALSE,
   armed |-> FALSE, entered |-> FALSE,
   delivered |-> None, entry_xcr0 |-> None, entry_xss |-> None,
   entry_window |-> FALSE, exit_reason |-> "none", exit_rip |-> None,
   exit_regs |-> None, exit_vector |-> None, host_cpuid |-> None, cpuid_xcr0 |-> None,
   cpuid_xss |-> None,
   result |-> "none", returned |-> FALSE]

\* mutant: an Err of a built-in handler is dropped and run returns None
run_after_exit_ignores_err(s, g) ==
  LET a == load_host_xstate(s)
      info == exit_info(a, g)
      b == builtin_vmexit_handler([a EXCEPT !.last.exit_reason = g.reason], info, g)
      c == IF b.handled /\ b.panic = "none"
             THEN [b EXCEPT !.last.result = b.res] ELSE b
  IN IF c.panic # "none" THEN c
     ELSE [c EXCEPT !.ret = IF c.handled THEN None ELSE Some(info),
                    !.last.returned = TRUE]
\* run, after the entry: restore the host state and handle the exit
run_after_exit(s, g) ==
  LET a == load_host_xstate(s)
      info == exit_info(a, g)
      b == builtin_vmexit_handler([a EXCEPT !.last.exit_reason = g.reason], info, g)
      c == IF b.handled /\ b.panic = "none"
             THEN [b EXCEPT !.last.result = b.res] ELSE b
  IN IF c.panic # "none" THEN c
     ELSE IF c.handled
       THEN IF c.res # "Ok"
              THEN Panic(c, "VmxVcpu failed to handle a VM-exit that should be handled by itself")
              ELSE [c EXCEPT !.ret = None, !.last.returned = TRUE]
       ELSE [c EXCEPT !.ret = Some(info), !.last.returned = TRUE]

\* run
run(s, g) ==
  LET s0 == [s EXCEPT !.run_calls = Bump(@), !.last = BlankLast]
      s1 == IF s0.launched
              THEN unwrap(inject_pending_events(s0), "inject_pending_events: unwrap on Err")
              ELSE s0
  IN IF s1.panic # "none" THEN s1
     ELSE LET s2 == load_guest_xstate(s1)
              s3 == IF s2.launched
                      THEN vmx_resume(s2, g)
                      ELSE LET a == unwrap(write_host_rsp(set_launched(s2)),
                                           "HOST_RSP write: unwrap on Err")
                           IN IF a.panic # "none" THEN a ELSE vmx_launch(a, g)
          IN IF s3.panic # "none" \/ ~s3.feasible THEN s3
             ELSE run_after_exit(s3, g)

(***************************************************************************)
(* Inputs.                                                                 *)
(***************************************************************************)
ExitReasons ==
  { "INTERRUPT_WINDOW", "XSETBV", "CR_ACCESS", "EXCEPTION_NMI", "CPUID",
    "EXTERNAL_INTERRUPT" }
\* guest RFLAGS and interruptibility state at an exit: IF clear; IF set;
\* IF set and blocking by STI
GuestIntrVals == { <<{1}, 0>>, <<{1, RFLAGS_IF}, 0>>, <<{1, RFLAGS_IF}, 1>> }
\* vectors of an EXCEPTION_NMI exit: #UD, the one exception in the bitmap
ExitVectors == {6}
\* what queue_event is called with: #GP with an error code, an interrupt
QueueInputs == { <<13, Some(0)>>, <<32, None>> }
\* the host's XCR0 and IA32_XSS when the vCPU is constructed
HostXcr0Vals == { {0, 1} }
HostXssVals == { {8} }
\* the guest-physical entry address given to new
EntryVals == {16}

Regs(a, b, c, d) == [rax |-> a, rbx |-> b, rcx |-> c, rdx |-> d]
ZeroRegs == Regs({}, {}, {}, {})
HostCpuidVals == { [eax |-> {1}, ebx |-> {2}, ecx |-> {0, 5, 9}, edx |-> {3}] }

\* the guest's registers at an XSETBV or CPUID exit, coarse:
\* XCR0 := x87 | SSE | AVX, XCR0 := x87 | AVX (invalid), XCR index 1
RegsCoarse ==
  { Regs({0, 1, 2}, {}, {}, {}), Regs({0, 2}, {}, {}, {}),
    Regs({0, 1, 2}, {}, {0}, {}) }

\* what the guest does once entered: the exit it ends with and the state
\* saved at that exit.  Exits whose handler reads no register are taken
\* with the registers zero; failed entries change no guest state.
Outcome(reason, ef, rip, intr, regs, vector, host) ==
  [ reason |-> reason, entry_failure |-> ef, rip |-> rip, rflags |-> intr[1],
    interruptibility |-> intr[2], regs |-> regs, vector |-> vector,
    host_cpuid |-> host ]
Outcomes(regsDom, ripDom) ==
  { Outcome(r, FALSE, rip, i, regs, v, h) :
      r \in {"XSETBV", "CPUID"}, rip \in ripDom, i \in GuestIntrVals,
      regs \in regsDom, v \in ExitVectors, h \in HostCpuidVals }
  \cup
  { Outcome(r, FALSE, rip, i, ZeroRegs, v, h) :
      r \in ExitReasons \ {"XSETBV", "CPUID"}, rip \in ripDom,
      i \in GuestIntrVals, v \in ExitVectors, h \in HostCpuidVals }
  \cup
  { Outcome(r, TRUE, rip, <<InitRflags, 0>>, ZeroRegs, v, h) :
      r \in ExitReasons, rip \in ripDom, v \in ExitVectors, h \in HostCpuidVals }
GuestOutcomes == Outcomes(RegsCoarse, EntryVals)

(***************************************************************************)
(* RISC-V: the VM of arch/riscv/vm.rs.  usize and u64 values are sets of   *)
(* bit positions, as above.  The vCPU (its register file and sepc), the    *)
(* register file type, the SBI message decoder, the instruction decoder    *)
(* and the PLIC register file are collaborators of VM; they are modelled   *)
(* by their contracts.                                                     *)
(***************************************************************************)
USIZE_MAX == 0..63
U64_MAX == 0..63
\* GprIndex: the registers the model follows (a0, a1, a2)
A0 == 10
A1 == 11
A2 == 12
GprIndices == {A0, A1, A2}
\* GeneralPurposeRegisters::default
DefaultGprs == [i \in GprIndices |-> {}]
\* GeneralPurposeRegisters::reg / set_reg
reg(gprs, i) == gprs[i]
set_reg(gprs, i, val) == [gprs EXCEPT ![i] = val]

\* the vCPUs handed to VM::new
VcpuIds == {0, 1}
\* the guest's entry address, and the registers VCpu::new gives a vCPU:
\* the address of the device tree in a1
EntryPc == 64
BootGprs == [DefaultGprs EXCEPT ![A1] = {31}]
\* VMState::new
VMState_new ==
  [general_purpose_registers |-> DefaultGprs, advance_pc |-> FALSE,
   instruction_length |-> 4]
\* PlicState::new(0xC00_0000): the base, and a register file with every
\* register zero (a register that was never written is absent from regs)
PLIC_BASE == 201326592
PLIC_SIZE == 67108864
PlicState_new == [base |-> PLIC_BASE, regs |-> <<>>]
\* PlicState::read_u32 and write_u32; PlicState::base is the field base
read_u32(p, addr) == IF addr \in DOMAIN p.regs THEN p.regs[addr] ELSE {}
write_u32(p, addr, val) ==
  [p EXCEPT !.regs = [a \in DOMAIN p.regs \cup {addr} |->
                         IF a = addr THEN val ELSE p.regs[a]]]
\* VM::new
VM_new ==
  [vcpus |-> [i \in VcpuIds |-> [gprs |-> BootGprs, sepc |-> EntryPc]],
   plic |-> PlicState_new,
   state |-> VMState_new,
   timer |-> U64_MAX,
   input_buffer |-> <<>>,
   vseip |-> FALSE]

\* history of the VM: whether a call of VM::run is in progress, the panic or
\* shutdown that ended the program, what the last call of run returned, the
\* values ever handed to add_char_to_input_buffer, the values GetChar took
\* from the buffer, a counter of loop iterations (0, 1, then 2 and 3 in
\* turn), what the last loop iteration did and, for each vCPU, what its own
\* last iteration did and the snapshot that iteration left
BlankIter ==
  [vcpu_id |-> None, exit |-> "none", msg |-> "none", new_call |-> FALSE,
   entry_gprs |-> None, entry_pc |-> None, entry_advance_pc |-> None,
   entry_instruction_length |-> None, restored_from |-> None,
   exit_gprs |-> None, exit_pc |-> None, saved_gprs |-> None,
   stub |-> FALSE, fault |-> None, function |-> "none", fw |-> None,
   empty_read |-> FALSE, got |-> None,
   result |-> "none", returned |-> FALSE]
BlankVmLog ==
  [running |-> FALSE, fatal |-> "none", trap |-> None, pushed |-> <<>>,
   read |-> <<>>, iters |-> 0, iter |-> BlankIter,
   own |-> [i \in VcpuIds |-> [iter |-> BlankIter, state |-> VMState_new]]]

\* the VM and its history as one record
VmSt == [vm |-> vm, log |-> vm_log, res |-> "Ok", len |-> 0]
VmCommit(w) ==
  /\ vm' = w.vm
  /\ vm_log' = w.log
  /\ UNCHANGED vcpu_vars
VmPanic(w, why) == [w EXCEPT !.log.fatal = why]

\* add_char_to_input_buffer
add_char_to_input_buffer(w, c) ==
  [w EXCEPT !.vm.input_buffer = push_back(@, c),
            !.log.pushed = Append(@, c)]
\* mutant: the value read stays in the buffer
read_from_input_buffer_peek(w) ==
  IF w.vm.input_buffer # <<>>
    THEN << [w EXCEPT !.log.read = Append(@, front(w.vm.input_buffer)[1]),
                      !.log.iter.got = front(w.vm.input_buffer)],
            front(w.vm.input_buffer)[1] >>
    ELSE << [w EXCEPT !.log.iter.empty_read = TRUE], USIZE_MAX >>
\* read_from_input_buffer: the new state and the value returned
read_from_input_buffer(w) ==
  IF w.vm.input_buffer # <<>>
    THEN << [w EXCEPT !.vm.input_buffer = pop_front(@),
                      !.log.read = Append(@, front(w.vm.input_buffer)[1]),
                      !.log.iter.got = front(w.vm.input_buffer)],
            front(w.vm.input_buffer)[1] >>
    ELSE << [w EXCEPT !.log.iter.empty_read = TRUE], USIZE_MAX >>
\* init_vcpu: the page map is outside the model
init_vcpu(w, vcpu_id) ==
  [w EXCEPT !.vm.state.general_purpose_registers = w.vm.vcpus[vcpu_id].gprs]
\* get_timer
get_timer(v) == v.timer
\* mutant: the deadline is not recorded
set_timer_ignored(w, timer) == w
\* set_timer
set_timer(w, timer) == [w EXCEPT !.vm.timer = timer]

\* VCpu::restore_gprs and save_gprs
restore_gprs(w, vcpu_id, gprs) ==
  [w EXCEPT !.vm.vcpus[vcpu_id].gprs = gprs,
            !.log.iter.restored_from = Some(gprs)]
save_gprs(w, vcpu_id) ==
  [w EXCEPT !.vm.state.general_purpose_registers = w.vm.vcpus[vcpu_id].gprs,
            !.log.iter.saved_gprs = Some(w.vm.vcpus[vcpu_id].gprs)]
\* VCpu::advance_pc
advance_pc(w, vcpu_id, instr_len) ==
  [w EXCEPT !.vm.vcpus[vcpu_id].sepc = @ + instr_len]
\* restore_state
restore_state(w, vcpu_id) ==
  LET a == restore_gprs(w, vcpu_id, w.vm.state.general_purpose_registers)
  IN IF a.vm.state.advance_pc
       THEN advance_pc(a, vcpu_id, a.vm.state.instruction_length)
       ELSE a
\* VCpu::run: the guest is entered with the vCPU's registers and sepc and
\* runs until the exit e; a stub guest exits at once
vcpu_run(w, vcpu_id, e) ==
  LET v == w.vm.vcpus[vcpu_id]
      a == [w EXCEPT !.log.iter.entry_gprs = Some(v.gprs),
                     !.log.iter.entry_pc = Some(v.sepc),
                     !.log.iter.entry_advance_pc = Some(w.vm.state.advance_pc),
                     !.log.iter.entry_instruction_length =
                         Some(w.vm.state.instruction_length),
                     !.log.iter.stub = e.stub,
                     !.log.iter.fault =
                         IF e.kind = "PageFault"
                           THEN Some([fault_addr |-> e.fault_addr,
                                      inst |-> e.inst, mem |-> e.mem,
                                      priv_level |-> e.priv_level])
                           ELSE None,
                     !.log.iter.function =
                         IF e.msg = "Base" THEN e.base
                         ELSE IF e.msg = "PMU" THEN e.pmu ELSE "none",
                     !.log.iter.fw =
                         IF e.msg \in {"Base", "RemoteFence", "PMU"}
                           THEN Some(e.fw) ELSE None,
                     !.log.iter.exit = e.kind,
                     !.log.iter.msg = e.msg]
      b == IF e.stub THEN a
           ELSE [a EXCEPT !.vm.vcpus[vcpu_id].gprs = e.gprs,
                          !.vm.vcpus[vcpu_id].sepc = e.pc]
  IN [b EXCEPT !.log.iter.exit_gprs = Some(b.vm.vcpus[vcpu_id].gprs),
               !.log.iter.exit_pc = Some(b.vm.vcpus[vcpu_id].sepc)]
\* mutant: the registers of the exit are not saved
run_without_save(w, vcpu_id, e) == vcpu_run(w, vcpu_id, e)
\* run_and_save_state
run_and_save_state(w, vcpu_id, e) == save_gprs(vcpu_run(w, vcpu_id, e), vcpu_id)

\* riscv_decode::instruction_length of the low half-word
instruction_length(i1) ==
  IF i1 % 4 # 3 THEN 2
  ELSE IF (i1 \div 4) % 8 # 7 THEN 4
  ELSE 6
\* riscv_decode::decode, for the instructions the model uses: sw, lw, sb,
\* add and their compressed forms c.sw, c.lw, c.nop; anything else is an
\* error.  Opcodes: LOAD 3, STORE 35, OP 51; funct3 of a word access: 2;
\* funct3 of c.lw: 2, of c.sw: 6
decode(inst) ==
  LET opcode == inst % 128
      funct3 == (inst \div 4096) % 8
      rd == (inst \div 128) % 32
      rs2 == (inst \div 1048576) % 32
      quadrant == inst % 4
      cfunct3 == (inst \div 8192) % 8
      creg == 8 + ((inst \div 4) % 8)
  IN IF quadrant = 3
       THEN IF opcode = 35
              THEN IF funct3 = 2 THEN [op |-> "Sw", rs2 |-> rs2]
                   ELSE [op |-> "Sb"]
            ELSE IF opcode = 3 /\ funct3 = 2
              THEN [op |-> "Lw", rd |-> rd]
            ELSE IF opcode = 51 THEN [op |-> "Add"]
            ELSE [op |-> "Err"]
     ELSE IF quadrant = 0
       THEN IF cfunct3 = 2 THEN [op |-> "Lw", rd |-> creg]
            ELSE IF cfunct3 = 6 THEN [op |-> "Sw", rs2 |-> creg]
            ELSE [op |-> "Err"]
     ELSE IF inst = 1 THEN [op |-> "Addi"]
     ELSE [op |-> "Err"]

\* handle_plic; the length is left in `len`.  mem is what
\* fetch_guest_instruction gives: the instruction word, or None for an error
\* mutant: sw stores the whole register
sw_value_untruncated(r) == r
\* `as u32` of the register stored by sw
sw_value(r) == from_u32(r)
handle_plic(w, inst_addr, inst0, fault_addr, mem) ==
  IF inst0 = 0 /\ mem = None THEN Err(w, "fetch_guest_instruction")
  ELSE
  LET inst1 == IF inst0 = 0 THEN mem[1] ELSE inst0
      i1 == inst1 % 65536
      len == instruction_length(i1)
  IN IF len \notin {2, 4} THEN VmPanic(w, "unreachable")
     ELSE
     LET inst == IF len = 2 THEN i1 ELSE inst1
         decode_inst == decode(inst)
         gprs == w.vm.state.general_purpose_registers
     IN IF decode_inst.op = "Err" THEN Err(w, "DecodeError")
        ELSE IF decode_inst.op = "Sw"
          THEN LET val == sw_value(reg(gprs, decode_inst.rs2)) IN
               [Ok(w) EXCEPT !.vm.plic = write_u32(@, fault_addr, val),
                               !.len = len]
        ELSE IF decode_inst.op = "Lw"
          THEN LET val == read_u32(w.vm.plic, fault_addr) IN
               [Ok(w) EXCEPT !.vm.state.general_purpose_registers =
                                  set_reg(@, decode_inst.rd, val),
                               !.len = len]
        ELSE Err(w, "InvalidInstruction")
\* mutant: the upper bound of the window is taken as inside
handle_page_fault_closed_window(w, inst_addr, inst, fault_addr, mem) ==
  IF /\ fault_addr >= w.vm.plic.base
     /\ fault_addr <= w.vm.plic.base + PLIC_SIZE
    THEN handle_plic(w, inst_addr, inst, fault_addr, mem)
    ELSE Err(w, "PageFault")
\* handle_page_fault
handle_page_fault(w, inst_addr, inst, fault_addr, mem) ==
  IF /\ fault_addr >= w.vm.plic.base
     /\ fault_addr < w.vm.plic.base + PLIC_SIZE
    THEN handle_plic(w, inst_addr, inst, fault_addr, mem)
    ELSE Err(w, "PageFault")
\* handle_irq; irq is what the claim/complete register of context 1 reads
CONTEXT_ID == 1
CLAIM_COMPLETE_OFFSET == 2097156
CONTEXT_STRIDE == 4096
handle_irq(w, irq) ==
  LET claim_and_complete_addr ==
        w.vm.plic.base + CLAIM_COMPLETE_OFFSET + CONTEXT_STRIDE * CONTEXT_ID
  IN IF irq = {} THEN VmPanic(w, "assertion failed: irq != 0")
     ELSE [w EXCEPT !.vm.plic = write_u32(@, claim_and_complete_addr, irq),
                    !.vm.vseip = TRUE]
\* mutant: the firmware's error is handed on by the Base functions too
handle_base_function_with_error(w, base, fw) ==
  Ok([w EXCEPT !.vm.state.general_purpose_registers =
          set_reg(set_reg(@, A1, fw.value), A0, fw.error)])
\* handle_base_function; fw is what the firmware returns.  The
\* specification version is put together again from its major number (bits
\* 24 to 30) and its minor number (bits 0 to 23)
handle_base_function(w, base, fw) ==
  LET result == IF base = "GetSepcificationVersion"
                  THEN {b + 24 : b \in {c \in 0..6 : c + 24 \in fw.value}}
                       \cup {b \in 0..23 : b \in fw.value}
                  ELSE fw.value
  IN Ok([w EXCEPT !.vm.state.general_purpose_registers =
             set_reg(set_reg(@, A1, result), A0, {})])
\* handle_pmu_function
handle_pmu_function(w, pmu, fw) ==
  LET a == [w EXCEPT !.vm.state.general_purpose_registers = set_reg(@, A0, {})]
  IN IF pmu = "GetNumCounters"
       THEN Ok([a EXCEPT !.vm.state.general_purpose_registers =
                    set_reg(@, A1, fw.value)])
       ELSE Ok([a EXCEPT !.vm.state.general_purpose_registers =
                    set_reg(set_reg(@, A0, fw.error), A1, fw.value)])
\* handle_rfnc_function
handle_rfnc_function(w, fw) ==
  LET a == [w EXCEPT !.vm.state.general_purpose_registers = set_reg(@, A0, {})]
  IN Ok([a EXCEPT !.vm.state.general_purpose_registers =
             set_reg(set_reg(@, A0, fw.error), A1, fw.value)])

\* VmmTrap
VmmTrap_SetTimer(d) == [kind |-> "SetTimer", timer |-> d]
VmmTrap_TimerInterruptEmulation == [kind |-> "TimerInterruptEmulation"]
\* `return`: the call of run ends with the trap t
vm_return(w, t) ==
  [w EXCEPT !.log.running = FALSE, !.log.trap = Some(t),
            !.log.iter.returned = TRUE]

\* the Ecall arm of the match in run; the argument of an SBI message is the
\* guest's a0
handle_ecall(w, e) ==
  IF e.msg = "None" THEN VmPanic(w, "explicit panic")
  ELSE
  LET a == [w EXCEPT !.vm.state.advance_pc = TRUE]
      arg == reg(a.vm.state.general_purpose_registers, A0)
  IN IF e.msg = "Base"
       THEN handle_base_function(a, e.base, e.fw)
     ELSE IF e.msg = "GetChar"
       THEN LET r == read_from_input_buffer(a) IN
            [r[1] EXCEPT !.vm.state.general_purpose_registers =
                            set_reg(@, A0, r[2])]
     ELSE IF e.msg = "PutChar" THEN a
     ELSE IF e.msg = "SetTimer"
       THEN vm_return(set_timer(a, arg), VmmTrap_SetTimer(arg))
     ELSE IF e.msg = "Reset"
       THEN IF e.fw.error = {} THEN VmPanic(a, "system_reset: shutdown") ELSE a
     ELSE IF e.msg = "RemoteFence"
       THEN handle_rfnc_function(a, e.fw)
     ELSE IF e.msg = "PMU"
       THEN handle_pmu_function(a, e.pmu, e.fw)
     ELSE VmPanic(a, "not yet implemented")
\* the PageFault arm
handle_page_fault_exit(w, e) ==
  IF e.priv_level = "Supervisor"
    THEN LET a == handle_page_fault(w, e.pc, e.inst, e.fault_addr, e.mem)
         IN IF a.log.fatal # "none" THEN a
            ELSE IF a.res # "Ok" THEN VmPanic(a, "Page fault: " \o a.res)
            ELSE [a EXCEPT !.vm.state.instruction_length = a.len,
                           !.vm.state.advance_pc = TRUE]
    ELSE VmPanic(w, "User page fault")
\* mutant: an exit no arm matches returns to the VMM
unmatched_exit_returns(w) == vm_return(w, [kind |-> "Unhandled"])
\* mutant: an exit no arm matches leaves advance_pc set
unmatched_exit_advances(w) == [w EXCEPT !.vm.state.advance_pc = TRUE]
\* the `_ => {}` arm
unmatched_exit(w) == w
\* the match on vm_exit_info in run
dispatch(w, e) ==
  IF e.kind = "Ecall" THEN handle_ecall(w, e)
  ELSE IF e.kind = "PageFault" THEN handle_page_fault_exit(w, e)
  ELSE IF e.kind = "TimerInterruptEmulation"
    THEN vm_return(w, VmmTrap_TimerInterruptEmulation)
  ELSE IF e.kind = "ExternalInterruptEmulation" THEN handle_irq(w, e.irq)
  ELSE unmatched_exit(w)
\* one iteration of the loop of VM::run, on the call of run (first
\* iteration) or on coming round the loop
run_iteration(w, vcpu_id, e) ==
  LET w0 == [w EXCEPT !.log.iter = [BlankIter EXCEPT
                                      !.vcpu_id = Some(vcpu_id),
                                      !.new_call = ~w.log.running],
                      !.log.running = TRUE,
                      !.log.iters = Bump(@),
                      !.log.trap = IF w.log.running THEN @ ELSE None]
      w1 == restore_state(w0, vcpu_id)
      w2 == [w1 EXCEPT !.vm.state.advance_pc = FALSE,
                       !.vm.state.instruction_length = 4]
      w3 == run_and_save_state(w2, vcpu_id, e)
      w4 == dispatch([w3 EXCEPT !.res = "Ok"], e)
      w5 == IF w4.log.fatal = "none" THEN [w4 EXCEPT !.log.iter.result = "Ok"]
            ELSE w4
  IN [w5 EXCEPT !.log.own[vcpu_id] = [iter |-> w5.log.iter,
                                      state |-> w5.vm.state]]

(***************************************************************************)
(* The state after `new` (which ends with unbind_from_current_processor:   *)
(* no VMCS is current).                                                    *)
(***************************************************************************)
\* setup_vmcs: the fields the model follows
InitVmcs(entry) ==
  [ launch_state |-> "clear", rip |-> entry, rflags |-> InitRflags,
    interruptibility |-> 0,
    primary_ctls |-> {UNCOND_IO_EXITING, USE_MSR_BITMAPS, SECONDARY_CONTROLS},
    entry_intr_info |-> None, host_rsp |-> None ]

Init ==
  /\ launched = FALSE
  /\ pending_events = <<>>
  /\ guest_regs = ZeroRegs
  /\ xcr0 \in HostXcr0Vals
  /\ xss \in HostXssVals
  /\ xstate = [host_xcr0 |-> xcr0, guest_xcr0 |-> xcr0,
               host_xss |-> xss, guest_xss |-> xss]
  /\ cur = NoVmcs
  /\ \E entry \in EntryVals : vmcs = [id \in VmcsIds |-> InitVmcs(entry)]
  /\ panic = "none"
  /\ vendor_regs_trap \in BOOLEAN
  /\ ret = None
  /\ queued = <<>>
  /\ injected = <<>>
  /\ run_calls = 0
  /\ ever_entered = FALSE
  /\ last = BlankLast
  /\ mux = "bind"
  /\ vm = VM_new
  /\ vm_log = BlankVmLog

(***************************************************************************)
(* Actions: the calls the VMM makes.  mux follows the call pattern         *)
(* new; (bind; run; unbind)* on this vCPU and is "off" once a call has     *)
(* left it.                                                                *)
(***************************************************************************)
MuxStep(s, id, now, next) ==
  [s EXCEPT !.mux = IF id = SelfVmcs /\ s.mux = now THEN next ELSE "off"]

Bind(id) ==
  /\ panic = "none"
  /\ Commit(MuxStep(bind_to_current_processor(St, id), id, "bind", "run"))

Unbind(id) ==
  /\ panic = "none"
  /\ Commit(MuxStep(unbind_from_current_processor(St, id), id, "unbind", "bind"))

QueueEvent(e) ==
  /\ panic = "none"
  /\ Len(queued) < MaxQueued
  /\ Commit([queue_event(St, e[1], e[2]) EXCEPT !.mux = "off"])

Run(g) ==
  /\ panic = "none"
  /\ g.reason = "EXCEPTION_NMI" => Len(queued) < MaxQueued
  /\ LET s == run(St, g) IN
       /\ s.feasible
       /\ Commit(MuxStep(s, SelfVmcs, "run", "unbind"))

Next ==
  \/ \E id \in VmcsIds : Bind(id)
  \/ \E id \in VmcsIds : Unbind(id)
  \/ \E e \in QueueInputs : QueueEvent(e)
  \/ \E g \in GuestOutcomes : Run(g)

Spec == Init /\ [][Next]_vars

(***************************************************************************)
(* A vCPU that stays bound to its processor: the VMM binds it, queues      *)
(* events and keeps calling run, and the guest leaves with its interrupts  *)
(* unblocked again and again.                                              *)
(***************************************************************************)
\* a call of run that the guest leaves with its interrupts unblocked
RunOpen == \E g \in GuestOutcomes : GuestOpen(g) /\ ~g.entry_failure /\ Run(g)
\* run can be called, with any outcome, until a call has panicked:
\* this is ENABLED <<RunOpen>>_vars
RunOpenEnabled == panic = "none"

NextBound ==
  \/ Bind(SelfVmcs)
  \/ \E e \in QueueInputs : QueueEvent(e)
  \/ \E g \in GuestOutcomes : Run(g)

\* strong fairness of RunOpen, SF_vars(RunOpen), with its ENABLED written out
FairRunOpen == <>[](~RunOpenEnabled) \/ []<><<RunOpen>>_vars

SpecBound == Init /\ [][NextBound]_vars /\ FairRunOpen

(***************************************************************************)
(* Properties.                                                             *)
(***************************************************************************)
\* a step that is a call of run
RunStep == run_calls' # run_calls
\* q is a prefix of r
IsPrefix(q, r) == Len(q) <= Len(r) /\ SubSeq(r, 1, Len(q)) = q

\* C1: whenever a call of run has reached its entry instruction, that
\* instruction is vmlaunch if the call is the first call of run on the vCPU
\* and vmresume if it is a later call; so every guest entry of a first call
\* is made with vmlaunch and every guest entry of a later call with vmresume.
C1_FirstLaunchThenResume ==
  /\ run_calls = 1 /\ last.instr # "none" => last.instr = "vmlaunch"
  /\ run_calls > 1 /\ last.instr # "none" => last.instr = "vmresume"
  /\ last.entered => last.instr # "none"
\* a second or later call has entered the guest with vmresume
C1_Witness == run_calls > 1 /\ last.entered /\ last.instr = "vmresume"

\* C2: launched is true only once the vCPU has completed a successful guest
\* entry.
C2_LaunchedOnlyAfterEntry == launched => ever_entered

\* C3: the events injected so far followed by the contents of pending_events
\* are the events ever queued, in the order queued (nothing lost, duplicated
\* or reordered), and a call of run injects at most one event.
C3_Fifo ==
  /\ [](injected \o pending_events = queued)
  /\ [][RunStep => /\ Len(injected') <= Len(injected) + 1
                   /\ IsPrefix(injected, injected')]_vars
\* two different events have been injected, in the order queued
C3_Witness ==
  /\ Len(injected) = 2
  /\ injected[1] # injected[2]
  /\ injected = queued
  /\ last.delivered = Some(injected[2])

\* the vCPU's own VMCS is current and the head of pending_events is an
\* exception or the guest's interrupts are unblocked
HeadOpen ==
  /\ pending_events # <<>>
  /\ cur = SelfVmcs
  /\ (Head(pending_events)[1] < 32 \/ allow_interrupt(St))
\* the vCPU's own VMCS is current, the head of pending_events is an external
\* interrupt and the guest's interrupts are blocked
HeadGated ==
  /\ pending_events # <<>>
  /\ cur = SelfVmcs
  /\ Head(pending_events)[1] >= 32
  /\ ~allow_interrupt(St)
\* this call of run injects the head of pending_events and pops it, and the
\* entry, if it is made, delivers that event
InjectsHead ==
  /\ injected' = Append(injected, Head(pending_events))
  /\ last'.injected = Some(Head(pending_events))
  /\ IsPrefix(Tail(pending_events), pending_events')
  /\ last'.entered => last'.delivered = Some(Head(pending_events))
\* this call of run injects nothing and pops nothing
InjectsNothing ==
  /\ injected' = injected
  /\ last'.injected = None
  /\ IsPrefix(pending_events, pending_events')

XRaxVals ==
  SUBSET (0..7) \cup { {0, 9}, {0, 1, 2, 9}, {0, 8}, {0, 1, 8, 9}, {0, 1, 2, 32} }
\* RCX (the XCR index) and RDX (the high half) where they are not zero
XRegs ==
  { Regs(a, {}, {}, {}) : a \in XRaxVals }
  \cup { Regs(a, {}, c, d) : a \in { {0}, {0, 1, 2}, {0, 2} },
                             c \in { {}, {0}, {32} }, d \in { {}, {0}, {32} } }
XOutcomes ==
  { Outcome("XSETBV", FALSE, rip, <<InitRflags, 0>>, regs, v, h) :
      rip \in EntryVals, regs \in XRegs, v \in ExitVectors, h \in HostCpuidVals }

NextX ==
  \/ Bind(SelfVmcs)
  \/ \E g \in XOutcomes : Run(g)

SpecX == Init /\ [][NextX]_vars

(***************************************************************************)
(* A bound vCPU whose guest executes CPUID on every emulated leaf, with    *)
(* sub-leaves, bits above the low register halves and a range of host      *)
(* results, and XSETBV and unhandled exits in between.                     *)
(***************************************************************************)
\* RAX at the exit: the five emulated leaves, leaves 0 and 2, and leaves
\* with a bit above the low 32
CLeafVals ==
  { LEAF_FEATURE_INFO, LEAF_STRUCTURED_EXTENDED_FEATURE_FLAGS_ENUMERATION,
    LEAF_PROCESSOR_EXTENDED_STATE_ENUMERATION, LEAF_HYPERVISOR_INFO,
    LEAF_HYPERVISOR_FEATURE, {}, {1},
    LEAF_FEATURE_INFO \cup {32}, LEAF_HYPERVISOR_INFO \cup {40} }
\* registers at a CPUID exit: RBX and RDX hold what the result overwrites
CRegs ==
  { Regs(a, {7}, {}, {8}) : a \in CLeafVals }
  \cup { Regs(a, {7}, c, {8}) :
           a \in { LEAF_FEATURE_INFO,
                   LEAF_STRUCTURED_EXTENDED_FEATURE_FLAGS_ENUMERATION },
           c \in { {0}, {32} } }
\* what the processor's cpuid gives
CHostVals ==
  { [eax |-> a, ebx |-> {2}, ecx |-> c, edx |-> {3, 31}] :
      a \in { {}, {1, 31} }, c \in SUBSET {0, 5, 31} }
COutcomes ==
  { Outcome("CPUID", FALSE, rip, <<InitRflags, 0>>, regs, v, h) :
      rip \in EntryVals, regs \in CRegs, v \in ExitVectors, h \in CHostVals }
  \cup
  { Outcome(r, FALSE, rip, <<InitRflags, 0>>, regs, v, h) :
      r \in {"XSETBV", "EXTERNAL_INTERRUPT"}, rip \in EntryVals,
      regs \in { Regs({0, 1, 2}, {}, {}, {}) }, v \in ExitVectors,
      h \in HostCpuidVals }

NextC ==
  \/ Bind(SelfVmcs)
  \/ \E g \in COutcomes : Run(g)

SpecC == Init /\ [][NextC]_vars

(***************************************************************************)
(* A bound vCPU with events queued whose guest changes XCR0 by XSETBV,     *)
(* executes CPUID leaf 0xD and leaves with every exit reason, failed       *)
(* entries included.                                                       *)
(***************************************************************************)
\* registers at an XSETBV or CPUID exit: XCR0 := x87 | SSE | AVX, which is
\* also CPUID leaf 7; CPUID leaf 0xD, which as an XCR0 value is invalid
SRegs ==
  { Regs({0, 1, 2}, {}, {}, {}),
    Regs(LEAF_PROCESSOR_EXTENDED_STATE_ENUMERATION, {}, {}, {}) }
SOutcomes == Outcomes(SRegs, EntryVals)

NextS ==
  \/ Bind(SelfVmcs)
  \/ \E e \in QueueInputs : QueueEvent(e)
  \/ \E g \in SOutcomes : Run(g)

SpecS == Init /\ [][NextS]_vars

(***************************************************************************)
(* A bound vCPU whose guest raises exceptions: the exits are EXCEPTION_NMI *)
(* with #UD or #PF in the interruption information, external interrupts    *)
(* and interrupt windows, and the VMM queues events and keeps calling run. *)
(***************************************************************************)
RunOpenR ==
  \E g \in GuestOutcomes, v \in {6, 14} :
    /\ g.reason \in {"EXCEPTION_NMI", "EXTERNAL_INTERRUPT", "INTERRUPT_WINDOW"}
    /\ GuestOpen(g) /\ ~g.entry_failure
    /\ Run([g EXCEPT !.vector = v])

NextR ==
  \/ Bind(SelfVmcs)
  \/ \E e \in QueueInputs : QueueEvent(e)
  \/ \E g \in GuestOutcomes, v \in {6, 14} :
       /\ g.reason \in {"EXCEPTION_NMI", "EXTERNAL_INTERRUPT", "INTERRUPT_WINDOW"}
       /\ ~g.entry_failure
       /\ Run([g EXCEPT !.vector = v])

\* strong fairness of RunOpenR, with its ENABLED written out
SpecR ==
  Init /\ [][NextR]_vars /\ (<>[](~RunOpenEnabled) \/ []<><<RunOpenR>>_vars)

(***************************************************************************)
(* A bound vCPU whose guest is also interrupted by NMIs: every exit reason *)
(* is met, an EXCEPTION_NMI exit carries #UD or the NMI, and the VMM       *)
(* queues events between the calls of run.                                 *)
(***************************************************************************)
NextW ==
  \/ Bind(SelfVmcs)
  \/ \E e \in QueueInputs : QueueEvent(e)
  \/ \E g \in SOutcomes, v \in {2, 6} : Run([g EXCEPT !.vector = v])

SpecW == Init /\ [][NextW]_vars

\* interrupt-window exiting is set in the vCPU's VMCS
WindowArmed == INTERRUPT_WINDOW_EXITING \in vmcs[SelfVmcs].primary_ctls
\* the launched vCPU holds an external interrupt at the head of its queue,
\* n events injected so far, and interrupt-window exiting armed
GatedAt(n) ==
  /\ launched
  /\ cur = SelfVmcs
  /\ Len(injected) = n
  /\ pending_events # <<>>
  /\ Head(pending_events)[1] >= 32
  /\ WindowArmed

BindingPanics ==
  { "vmx_entry_failed", "HOST_RSP write: unwrap on Err",
    "inject_pending_events: unwrap on Err",
    "allow_interrupt: unwrap on a failed VMCS read" }

\* C7: while the VMM follows new; (bind; run; unbind)*, no run panics on its
\* VMCS accesses or its entry instruction, and every run that does not panic
\* in its exit handling has entered the guest.
C7_Multiplexing ==
  mux # "off" =>
    /\ panic \notin BindingPanics
    /\ run_calls > 0 /\ panic = "none" => last.entered /\ last.returned

\* C8: a call of run made while the vCPU's VMCS is not the current VMCS
\* panics, enters no guest and returns no value.
C8_UnboundRunPanics ==
  [][RunStep /\ cur # SelfVmcs =>
       /\ panic' # "none"
       /\ ~last'.entered
       /\ ~last'.returned]_vars

\* EDX:EAX, the low 32 bits of RDX above the low 32 bits of RAX
EdxEax(regs) ==
  {b \in 0..31 : b \in regs.rax} \cup {b + 32 : b \in {c \in 0..31 : c \in regs.rdx}}
\* the XCR index, the low 32 bits of RCX, is 0
IndexZero(regs) == \A b \in 0..31 : b \notin regs.rcx
\* the XCR0 rules: x87 set; AVX only with SSE; BNDREG and BNDCSR together;
\* the three AVX-512 states only all together and with AVX
Xcr0RulesHold(v) ==
  /\ 0 \in v
  /\ 2 \in v => 1 \in v
  /\ (3 \in v) <=> (4 \in v)
  /\ (5 \in v \/ 6 \in v \/ 7 \in v) => (2 \in v /\ 5 \in v /\ 6 \in v /\ 7 \in v)
\* this step is a call of run that ends with an XSETBV exit on XCR index 0
XsetbvStep ==
  /\ RunStep
  /\ last'.exit_reason = "XSETBV"
  /\ IndexZero(guest_regs')

\* C9: an XSETBV exit on XCR index 0 whose EDX:EAX violates an XCR0 rule
\* makes handle_xsetbv return InvalidParam, with guest_xcr0 as it was and the
\* guest RIP as it was at the exit.
C9_XsetbvRejects ==
  [][XsetbvStep /\ ~Xcr0RulesHold(EdxEax(guest_regs')) =>
       /\ last'.result = "InvalidParam"
       /\ xstate'.guest_xcr0 = xstate.guest_xcr0
       /\ Some(vmcs'[SelfVmcs].rip) = last'.exit_rip]_vars
\* the guest has asked for x87 and AVX without SSE, after a valid XSETBV
\* that changed guest_xcr0
C9_Witness ==
  /\ last.exit_reason = "XSETBV"
  /\ EdxEax(guest_regs) = {0, 2}
  /\ IndexZero(guest_regs)
  /\ last.result = "InvalidParam"
  /\ xstate.guest_xcr0 # xstate.host_xcr0
  /\ xstate.guest_xcr0 # {0, 2}

\* this call of run accepts the XSETBV: guest_xcr0 becomes EDX:EAX, the guest
\* RIP moves on by 3 and run returns None
XsetbvAccepted ==
  /\ last'.result = "Ok"
  /\ xstate'.guest_xcr0 = EdxEax(guest_regs')
  /\ Some(vmcs'[SelfVmcs].rip) = Some(last'.exit_rip[1] + 3)
  /\ panic' = "none"
  /\ last'.returned
  /\ ret' = None
\* every guest entry is made with guest_xcr0 in XCR0
EntryLoadsGuestXcr0 ==
  RunStep /\ last'.entered => last'.entry_xcr0 = Some(xstate.guest_xcr0)

\* C10 as stated: every XSETBV exit on XCR index 0 whose EDX:EAX satisfies
\* the XCR0 rules is accepted, and the next entry runs with the new value.
C10_XsetbvAcceptsRules ==
  [][/\ XsetbvStep /\ Xcr0RulesHold(EdxEax(guest_regs')) => XsetbvAccepted
     /\ EntryLoadsGuestXcr0]_vars
\* C10 amended: the same for a value that also has no bit outside the
\* defined XCR0 state bits (0..7 and 9); a value with any other bit set is
\* refused with InvalidParam like a value that breaks a rule.
C10_XsetbvAcceptsFlags ==
  [][/\ XsetbvStep /\ Xcr0RulesHold(EdxEax(guest_regs'))
          /\ EdxEax(guest_regs') \subseteq (0..7) \cup {9} => XsetbvAccepted
     /\ XsetbvStep /\ ~(EdxEax(guest_regs') \subseteq (0..7) \cup {9}) =>
          /\ last'.result = "InvalidParam"
          /\ xstate'.guest_xcr0 = xstate.guest_xcr0
     /\ EntryLoadsGuestXcr0]_vars
\* the guest has been entered with an XCR0 that an earlier XSETBV set from
\* registers with bits above their low halves
C10_Witness ==
  /\ last.entered
  /\ last.entry_xcr0 = Some({0, 1, 2})
  /\ xstate.host_xcr0 # {0, 1, 2}
  /\ last.exit_reason = "XSETBV"
  /\ last.result = "Ok"
  /\ guest_regs.rax = {0, 1, 2, 32}
  /\ xstate.guest_xcr0 = {0, 1, 2}
  /\ vmcs[SelfVmcs].rip = last.exit_rip[1] + 3

\* the low 32 bits of a register
Low32(r) == {b \in 0..31 : b \in r}
\* this step is a call of run that ends with a CPUID exit, guest EAX being
\* leaf, whose handler completes
CpuidStep(leaf) ==
  /\ RunStep
  /\ last'.entered
  /\ last'.exit_reason = "CPUID"
  /\ Low32(last'.exit_regs[1].rax) = leaf
  /\ last'.result = "Ok"
\* the guest RIP is n beyond the RIP of the exit
RipAdvanced(n) == vmcs'[SelfVmcs].rip = last'.exit_rip[1] + n

\* C11: after the handler has emulated CPUID leaf 0x1, whatever the host's
\* result and the sub-leaf, guest ECX has bit 5 clear and bit 31 set and
\* otherwise the host's ECX, guest EAX, EBX and EDX are the host's, and the
\* guest RIP is 2 beyond the RIP of the exit.
C11_CpuidFeatureInfo ==
  [][CpuidStep({0}) =>
       /\ 5 \notin Low32(guest_regs'.rcx)
       /\ 31 \in Low32(guest_regs'.rcx)
       /\ Low32(guest_regs'.rcx) \ {5, 31} = last'.host_cpuid[1].ecx \ {5, 31}
       /\ Low32(guest_regs'.rax) = last'.host_cpuid[1].eax
       /\ Low32(guest_regs'.rbx) = last'.host_cpuid[1].ebx
       /\ Low32(guest_regs'.rdx) = last'.host_cpuid[1].edx
       /\ RipAdvanced(2)]_vars
\* leaf 0x1, sub-leaf 1, on a host that reports VMX and no hypervisor
C11_Witness ==
  /\ last.exit_reason = "CPUID"
  /\ last.result = "Ok"
  /\ Low32(last.exit_regs[1].rax) = {0}
  /\ last.exit_regs[1].rcx = {0}
  /\ last.host_cpuid[1].ecx = {0, 5}
  /\ guest_regs.rcx = {0, 31}
  /\ vmcs[SelfVmcs].rip = last.exit_rip[1] + 2

\* this step is a call of run whose guest entry ends with a CPUID exit, guest
\* EAX being leaf
CpuidExit(leaf) ==
  /\ RunStep
  /\ last'.entered
  /\ last'.exit_reason = "CPUID"
  /\ Low32(last'.exit_regs[1].rax) = leaf
\* "RVMR", "VMRV" and "MRVM" read as little-endian words
Word_RVMR == {1, 4, 6, 9, 10, 12, 14, 16, 18, 19, 22, 25, 28, 30}
Word_VMRV == {1, 2, 4, 6, 8, 10, 11, 14, 17, 20, 22, 25, 26, 28, 30}
Word_MRVM == {0, 2, 3, 6, 9, 12, 14, 17, 18, 20, 22, 24, 26, 27, 30}
\* the low halves of the guest's RAX, RBX, RCX, RDX after the step
GuestLow32Are(a, b, c, d) ==
  /\ Low32(guest_regs'.rax) = a
  /\ Low32(guest_regs'.rbx) = b
  /\ Low32(guest_regs'.rcx) = c
  /\ Low32(guest_regs'.rdx) = d

C13_XstateSwitching ==
  [][RunStep =>
       /\ last'.entered =>
            /\ last'.entry_xcr0 = Some(xstate.guest_xcr0)
            /\ last'.entry_xss = Some(xstate.guest_xss)
       /\ last'.returned =>
            /\ xcr0' = xstate.host_xcr0 /\ xcr0' = xstate'.host_xcr0
            /\ xss' = xstate.host_xss /\ xss' = xstate'.host_xss
       /\ CpuidStep(LEAF_PROCESSOR_EXTENDED_STATE_ENUMERATION) =>
            /\ last'.cpuid_xcr0 = Some(xstate.guest_xcr0)
            /\ last'.cpuid_xss = Some(xstate.guest_xss)]_vars
\* a CPUID leaf 0xD exit of a guest whose XCR0 differs from the host's
C13_Witness ==
  /\ last.entered
  /\ last.exit_reason = "CPUID"
  /\ from_u32(last.exit_regs[1].rax) = LEAF_PROCESSOR_EXTENDED_STATE_ENUMERATION
  /\ last.returned
  /\ ret = None
  /\ last.entry_xcr0 = Some({0, 1, 2})
  /\ last.cpuid_xcr0 = Some({0, 1, 2})
  /\ xstate.host_xcr0 = {0, 1}
  /\ xcr0 = {0, 1}

\* the exit reasons builtin_vmexit_handler has an arm for
BuiltinReasons ==
  {"INTERRUPT_WINDOW", "XSETBV", "CR_ACCESS", "EXCEPTION_NMI", "CPUID"}
\* the guest state the core keeps is as the VM exit left it: registers and
\* RIP as saved at the exit, the queue as the entry's injection left it, the
\* window bit as it was at the entry and the other control bits as before
\* the call
UntouchedSinceExit ==
  /\ guest_regs' = last'.exit_regs[1]
  /\ vmcs'[cur'].rip = last'.exit_rip[1]
  /\ pending_events' =
       IF last'.injected = None THEN pending_events ELSE Tail(pending_events)
  /\ (INTERRUPT_WINDOW_EXITING \in vmcs'[cur'].primary_ctls) = last'.entry_window
  /\ vmcs'[cur'].primary_ctls \ {INTERRUPT_WINDOW_EXITING}
       = vmcs[cur].primary_ctls \ {INTERRUPT_WINDOW_EXITING}
  /\ xstate' = xstate

\* C14: a call of run that returns has entered the guest once and returns
\* for the VM exit of that entry; it returns Some(exit_info) exactly when the
\* exit reason is none of INTERRUPT_WINDOW, XSETBV, CR_ACCESS, EXCEPTION_NMI,
\* CPUID, and then the core has changed no guest register, RIP, pending
\* event or control bit since the exit; it returns None exactly when a
\* built-in handler has ended with Ok; an exit with no built-in handler
\* always makes run return.
C14_RunReturn ==
  [][RunStep =>
       /\ last'.returned =>
            /\ last'.entered
            /\ last'.instr \in {"vmlaunch", "vmresume"}
            /\ (ret' # None) <=> (last'.exit_reason \notin BuiltinReasons)
            /\ ret' # None =>
                 /\ ret'[1].exit_reason = last'.exit_reason
                 /\ ~ret'[1].entry_failure
                 /\ UntouchedSinceExit
            /\ (ret' = None) <=> (last'.result = "Ok")
       /\ last'.result = "Ok" => last'.returned
       /\ last'.entered /\ last'.exit_reason \notin BuiltinReasons
            => last'.returned]_vars
\* a run that injects the head of the queue and returns an external
\* interrupt to the caller
C14_Witness ==
  /\ last.returned
  /\ last.entered
  /\ last.exit_reason = "EXTERNAL_INTERRUPT"
  /\ ret # None
  /\ last.injected # None
  /\ pending_events # <<>>
  /\ guest_regs = last.exit_regs[1]

(***************************************************************************)
(* RISC-V inputs: what the VMM pushes and what the guest does once         *)
(* entered.  An exit gives the class of the exit, the SBI message of an    *)
(* ecall, the registers and sepc the guest leaves (a stub guest leaves     *)
(* what it was entered with), the fields of a page fault, what the         *)
(* firmware answers to a forwarded call and what the PLIC's                *)
(* claim/complete register reads.                                          *)
(***************************************************************************)
MaxChars == 2
MaxPc == 72
\* the values pushed into the input buffer
CharVals == { {0}, {0, 6} }
GuestGprs(a0, a1) ==
  [i \in GprIndices |-> IF i = A0 THEN a0 ELSE IF i = A1 THEN a1 ELSE {}]
\* SbiRet of a forwarded call: success with a value, an error
FwVals == { [error |-> {}, value |-> {2}], [error |-> 1..63, value |-> {}] }
ExitOf(kind, msg, gprs) ==
  [kind |-> kind, msg |-> msg, base |-> "none", pmu |-> "none",
   stub |-> FALSE, gprs |-> gprs,
   pc |-> EntryPc, fault_addr |-> 0, inst |-> 0, priv_level |-> "Supervisor",
   mem |-> None, fw |-> [error |-> {}, value |-> {}], irq |-> {}]
\* ecalls: the console, the timer (deadlines 3 and 2^40 + 4), forwarded
\* calls, a message with no arm, and an ecall that is no SBI message
EcallExits ==
  { ExitOf("Ecall", m, GuestGprs(a, {})) :
      m \in {"GetChar", "PutChar", "SetTimer"}, a \in { {0, 1}, {2, 40} } }
  \cup
  { [ExitOf("Ecall", m, GuestGprs({0, 2}, {3})) EXCEPT
       !.fw = f,
       !.base = IF m = "Base" THEN "GetImplementationID" ELSE "none"] :
      m \in {"Base", "RemoteFence", "Reset"}, f \in FwVals }
  \cup
  { [ExitOf("Ecall", "PMU", GuestGprs({0, 2}, {3})) EXCEPT !.fw = f, !.pmu = p] :
      p \in {"GetNumCounters", "GetCounterInfo"}, f \in FwVals }
  \cup
  { ExitOf("Ecall", m, GuestGprs({0, 2}, {3})) : m \in {"Unknown", "None"} }
\* trapping instructions: sw a1, 0(a0); lw a2, 0(a0); c.sw a1, 0(a0) below
\* another half-word; c.lw a2, 0(a0); sb a1, 0(a0); add; c.nop; a word of
\* the vector opcode; a 48-bit encoding
InstVals ==
  { 11870243, 337411, 377100, 16656, 11862051, 51, 1, 87, 31 }
\* page faults: in the PLIC window (priority of source 1, claim/complete of
\* context 0) with the instruction given or to be fetched, outside the
\* window on either side, and in user mode
FaultExits ==
  { [ExitOf("PageFault", "none", GuestGprs({}, r)) EXCEPT
       !.fault_addr = fa, !.inst = i] :
      r \in { {0, 1}, {1, 33} }, fa \in {PLIC_BASE + 4, PLIC_BASE + 2097156},
      i \in InstVals }
  \cup
  { [ExitOf("PageFault", "none", GuestGprs({}, {0, 1})) EXCEPT
       !.fault_addr = PLIC_BASE + 4, !.mem = mm] :
      mm \in { None, Some(11870243), Some(16656), Some(51) } }
  \cup
  { [ExitOf("PageFault", "none", GuestGprs({}, {0, 1})) EXCEPT
       !.fault_addr = fa, !.inst = 11870243] :
      fa \in {PLIC_BASE - 1, PLIC_BASE + PLIC_SIZE} }
  \cup
  { [ExitOf("PageFault", "none", GuestGprs({}, {0, 1})) EXCEPT
       !.fault_addr = PLIC_BASE + 4, !.inst = 11870243, !.priv_level = "User"] }
\* interrupts, and an exit of a class run has no arm for
OtherExits ==
  { ExitOf("TimerInterruptEmulation", "none", GuestGprs({0}, {})),
    ExitOf("Other", "none", GuestGprs({0}, {})) }
  \cup
  { [ExitOf("ExternalInterruptEmulation", "none", GuestGprs({0}, {})) EXCEPT
       !.irq = q] : q \in { {}, {0, 3} } }
\* a stub guest: it exits at once, with the registers and sepc of its entry
StubExits ==
  { [e EXCEPT !.stub = TRUE] :
      e \in { ExitOf("Ecall", "PutChar", DefaultGprs),
              ExitOf("Ecall", "GetChar", DefaultGprs),
              ExitOf("TimerInterruptEmulation", "none", DefaultGprs),
              ExitOf("Other", "none", DefaultGprs),
              [ExitOf("ExternalInterruptEmulation", "none", DefaultGprs)
                 EXCEPT !.irq = {0, 3}] } }
\* the console and the timer of one guest, whose a0 is 3 at every ecall
ConsoleExits ==
  { e \in EcallExits : e.msg \in {"GetChar", "PutChar", "SetTimer"}
                       /\ e.gprs[A0] = {0, 1} }
  \cup { e \in OtherExits : e.kind # "ExternalInterruptEmulation" }
\* one or two exits of every class and message, the fatal ones included,
\* and SetTimer with either deadline
ClassExits ==
  { e \in EcallExits : /\ e.msg \in {"GetChar", "PutChar", "SetTimer"}
                       /\ e.gprs[A0] = {2, 40} \/ e.msg = "SetTimer" }
  \cup { e \in EcallExits : /\ e.msg \in {"Base", "RemoteFence", "PMU"}
                            /\ e.fw.value # {} }
  \cup { e \in EcallExits : e.msg \in {"Unknown", "None", "Reset"} }
  \cup { e \in FaultExits : /\ e.inst \in {11870243, 337411, 11862051}
                            /\ e.gprs[A1] = {0, 1}
                            /\ e.fault_addr # PLIC_BASE + 2097156 }
  \cup OtherExits

(***************************************************************************)
(* RISC-V actions: the calls the VMM makes between calls of run, and the   *)
(* iterations of the loop of run.                                          *)
(***************************************************************************)
AddChar(c) ==
  /\ vm_log.fatal = "none"
  /\ ~vm_log.running
  /\ Len(vm_log.pushed) < MaxChars
  /\ VmCommit(add_char_to_input_buffer(VmSt, c))

InitVcpu(vcpu_id) ==
  /\ vm_log.fatal = "none"
  /\ vm_log.iter = BlankIter
  /\ vm.state.general_purpose_registers # vm.vcpus[vcpu_id].gprs
  /\ VmCommit(init_vcpu(VmSt, vcpu_id))

VmRun(vcpu_id, e) ==
  /\ vm_log.fatal = "none"
  /\ vm_log.running => vm_log.iter.vcpu_id = Some(vcpu_id)
  /\ e.stub => vm.vcpus[vcpu_id].sepc < MaxPc
  /\ VmCommit(run_iteration(VmSt, vcpu_id, e))

\* the console: characters pushed between calls of run, read by GetChar
NextConsole ==
  \/ \E c \in CharVals : AddChar(c)
  \/ \E e \in ConsoleExits : VmRun(0, e)

SpecConsole == Init /\ [][NextConsole]_vars

\* every class of exit
NextClasses ==
  \/ \E c \in CharVals : AddChar(c)
  \/ InitVcpu(0)
  \/ \E e \in ClassExits : VmRun(0, e)

SpecClasses == Init /\ [][NextClasses]_vars

\* page faults, with lw at the first and the last address of the PLIC
\* window and at the addresses next to them, in either privilege level
NextPlic ==
  \E e \in FaultExits \cup
         { [ExitOf("PageFault", "none", GuestGprs({}, {0, 1})) EXCEPT
              !.fault_addr = fa, !.inst = 337411, !.priv_level = p] :
             fa \in { PLIC_BASE - 1, PLIC_BASE, PLIC_BASE + PLIC_SIZE - 1,
                      PLIC_BASE + PLIC_SIZE },
             p \in {"Supervisor", "User"} } :
    VmRun(0, e)

SpecPlic == Init /\ [][NextPlic]_vars

\* a stub guest among guests that run
NextStub ==
  \/ InitVcpu(0)
  \/ \E e \in StubExits \cup ConsoleExits : VmRun(0, e)

SpecStub == Init /\ [][NextStub]_vars

\* calls forwarded to the firmware, which answers with success and a value
\* or with an error: the Base functions (the specification version is 1.0
\* or 2.1), the PMU functions and the remote fences, among console calls
NextFw ==
  \/ InitVcpu(0)
  \/ \E e \in { x \in EcallExits :
                  x.msg \in {"Base", "RemoteFence", "PMU", "PutChar"} }
           \cup { [ExitOf("Ecall", "Base", GuestGprs({0, 2}, {3})) EXCEPT
                    !.base = "GetSepcificationVersion",
                    !.fw = [error |-> {}, value |-> v]] :
                   v \in { {24}, {0, 25} } }
           \cup { [ExitOf("Ecall", "PMU", GuestGprs({0, 2}, {3})) EXCEPT
                    !.pmu = "StopCounter", !.fw = f] : f \in FwVals }
           \cup { e \in OtherExits : e.kind = "TimerInterruptEmulation" } :
       VmRun(0, e)

SpecFw == Init /\ [][NextFw]_vars

\* the exits that bear on the advance of the PC: PutChar and SetTimer, an
\* ecall that is no SBI message, PLIC faults on sw, c.lw and sb, the
\* interrupts, an unmatched exit, and stub guests
PcExits ==
  { e \in EcallExits : /\ e.msg \in {"PutChar", "SetTimer", "None"}
                       /\ e.gprs[A0] # {2, 40} }
  \cup { e \in FaultExits : /\ e.inst \in {11870243, 16656, 11862051}
                            /\ e.gprs[A1] = {1, 33}
                            /\ e.fault_addr = PLIC_BASE + 4 }
  \cup OtherExits
  \cup { e \in StubExits : e.msg # "GetChar" }

NextPc ==
  \/ InitVcpu(0)
  \/ \E e \in PcExits : VmRun(0, e)

SpecPc == Init /\ [][NextPc]_vars

\* two vCPUs run in turn: a call of run for one vCPU between two calls for
\* the other, with guests that end on PutChar, SetTimer, a PLIC fault on
\* c.lw, a timer interrupt or an unmatched exit, and a stub guest
NextSmp ==
  \/ \E i \in VcpuIds : InitVcpu(i)
  \/ \E i \in VcpuIds :
       \E e \in { x \in PcExits :
                    \/ x.msg \in {"PutChar", "SetTimer"} /\ ~x.stub
                    \/ x.kind = "PageFault" /\ x.inst = 16656
                    \/ x.kind = "TimerInterruptEmulation"
                    \/ x.kind = "Other" /\ ~x.stub } : VmRun(i, e)

SpecSmp == Init /\ [][NextSmp]_vars

(***************************************************************************)
(* Properties of the RISC-V VM.                                            *)
(***************************************************************************)
\* this step is an iteration of the loop of VM::run
VmRunStep == vm_log'.iters # vm_log.iters
\* this step is an iteration whose exit is an ecall with SBI message m and
\* whose handler completes
EcallStep(m) ==
  /\ VmRunStep
  /\ vm_log'.iter.exit = "Ecall"
  /\ vm_log'.iter.msg = m
  /\ vm_log'.fatal = "none"
\* the guest's a0 in the snapshot
SnapshotA0 == vm.state.general_purpose_registers[A0]

\* C15: the values pushed by add_char_to_input_buffer reach the guest through
\* GetChar in push order, one per GetChar and once each; a GetChar on an
\* empty buffer gives usize::MAX and leaves the buffer empty; either way
\* advance_pc is set with instruction_length 4 and run does not return; and
\* the registers the guest is entered with are those of the snapshot, so
\* the value is the a0 of the next entry.
C15_InputBuffer ==
  [][/\ vm_log'.read \o vm'.input_buffer = vm_log'.pushed
     /\ EcallStep("GetChar") =>
          /\ IF vm.input_buffer = <<>>
               THEN /\ SnapshotA0' = USIZE_MAX
                    /\ vm'.input_buffer = <<>>
                    /\ vm_log'.read = vm_log.read
               ELSE /\ SnapshotA0' = Head(vm.input_buffer)
                    /\ vm'.input_buffer = Tail(vm.input_buffer)
                    /\ vm_log'.read = Append(vm_log.read, Head(vm.input_buffer))
          /\ vm'.state.advance_pc
          /\ vm'.state.instruction_length = 4
          /\ vm_log'.running
          /\ ~vm_log'.iter.returned
     /\ VmRunStep =>
          /\ vm_log'.iter.entry_gprs = Some(vm.state.general_purpose_registers)
          /\ vm_log.iter.msg = "GetChar" /\ vm_log.fatal = "none" =>
               vm_log'.iter.entry_pc = Some(vm_log.iter.exit_pc[1] + 4)]_vars
\* two different values pushed, both read in order, a third GetChar on the
\* empty buffer, and the guest entered again with usize::MAX in a0
C15_Witness ==
  /\ Len(vm_log.pushed) = 2
  /\ vm_log.pushed[1] # vm_log.pushed[2]
  /\ vm_log.read = vm_log.pushed
  /\ vm.input_buffer = <<>>
  /\ vm_log.iter.entry_gprs # None
  /\ vm_log.iter.entry_gprs[1][A0] = USIZE_MAX
  /\ vm_log.iter.msg = "GetChar"
  /\ vm_log.iter.empty_read
  /\ SnapshotA0 = USIZE_MAX

\* this step is an iteration whose exit is an SBI SetTimer ecall
SetTimerStep ==
  /\ VmRunStep
  /\ vm_log'.iter.exit = "Ecall"
  /\ vm_log'.iter.msg = "SetTimer"

ReturningExit ==
  \/ vm_log'.iter.exit = "Ecall" /\ vm_log'.iter.msg = "SetTimer"
  \/ vm_log'.iter.exit = "TimerInterruptEmulation"
\* the exit of the iteration just made is one the claim lists as handled
\* without returning
HandledExit ==
  \/ /\ vm_log'.iter.exit = "Ecall"
     /\ vm_log'.iter.msg \in {"Base", "GetChar", "PutChar", "RemoteFence", "PMU"}
  \/ vm_log'.iter.exit = "PageFault" /\ vm_log'.fatal = "none"
  \/ vm_log'.iter.exit = "ExternalInterruptEmulation" /\ vm_log'.fatal = "none"

C18_UnmatchedSurfaced ==
  [][/\ VmRunStep /\ vm_log'.iter.exit = "Other" =>
          vm_log'.iter.returned /\ vm_log'.trap # None
     /\ RunStep /\ last'.entered /\ last'.exit_reason \notin BuiltinReasons =>
          last'.returned /\ ret' # None]_vars

\* this step is an iteration whose exit is a supervisor page fault in the
\* PLIC window (0x0C00_0000 up to 0x1000_0000) with a trapping instruction
\* to decode
PlicFaultStep ==
  /\ VmRunStep
  /\ vm_log'.iter.exit = "PageFault"
  /\ vm_log'.iter.fault[1].priv_level = "Supervisor"
  /\ vm_log'.iter.fault[1].fault_addr \in 201326592..268435455
  /\ vm_log'.iter.fault[1].inst = 0 => vm_log'.iter.fault[1].mem # None
\* the trapping instruction: the exit's inst field, or what was fetched from
\* guest memory when that field is 0
TrappingWord ==
  IF vm_log'.iter.fault[1].inst # 0 THEN vm_log'.iter.fault[1].inst
  ELSE vm_log'.iter.fault[1].mem[1]
FaultAddr == vm_log'.iter.fault[1].fault_addr
\* sw a1, 0(a0) and c.sw a1, 0(a0); lw a2, 0(a0) and c.lw a2, 0(a0); the
\* four-byte ones of them; words that are instructions other than sw and
\* lw (sb, add, c.nop); a word that is no instruction of the decoder; a
\* 48-bit encoding
IsSw == TrappingWord \in {11870243, 377100}
IsLw == TrappingWord \in {337411, 16656}
WordLength == IF TrappingWord \in {11870243, 337411} THEN 4 ELSE 2
IsOtherInstruction == TrappingWord \in {11862051, 51, 1}
IsNoInstruction == TrappingWord = 87
IsLongEncoding == TrappingWord = 31
\* the registers saved at the exit, and the snapshot after the handler
ExitGprs == vm_log'.iter.exit_gprs[1]
SnapshotGprs == vm.state.general_purpose_registers
\* the PLIC register at the fault address holds val and every other
\* register is as before
PlicWritten(val) ==
  /\ read_u32(vm'.plic, FaultAddr) = val
  /\ \A a \in (DOMAIN vm.plic.regs \cup DOMAIN vm'.plic.regs) \ {FaultAddr} :
       read_u32(vm'.plic, a) = read_u32(vm.plic, a)
  /\ vm'.plic.base = vm.plic.base
\* the handler has emulated the instruction: its length is left for the
\* advance, and run goes on
Emulated ==
  /\ vm_log'.fatal = "none"
  /\ vm'.state.advance_pc
  /\ vm'.state.instruction_length = WordLength
\* nothing is emulated: the PLIC and the registers are as the exit left them
NothingEmulated ==
  /\ vm'.plic = vm.plic
  /\ SnapshotGprs' = ExitGprs
\* sw and lw are emulated on the PLIC register file
PlicEmulation ==
  /\ PlicFaultStep /\ IsSw =>
       /\ PlicWritten(Low32(ExitGprs[A1]))
       /\ SnapshotGprs' = ExitGprs
       /\ Emulated
  /\ PlicFaultStep /\ IsLw =>
       /\ SnapshotGprs'[A2] = read_u32(vm.plic, FaultAddr)
       /\ \A i \in GprIndices \ {A2} : SnapshotGprs'[i] = ExitGprs[i]
       /\ vm'.plic = vm.plic
       /\ Emulated
\* the PC of an entry is the sepc the vCPU had, advanced by the length the
\* last handler left if it left one
PcAdvance ==
  VmRunStep =>
    vm_log'.iter.entry_pc =
      Some(vm.vcpus[0].sepc
           + IF vm.state.advance_pc THEN vm.state.instruction_length ELSE 0)

NoRegisterHandler ==
  \/ vm_log'.iter.exit = "Ecall" /\ vm_log'.iter.msg \in {"PutChar", "SetTimer"}
  \/ vm_log'.iter.exit \in {"TimerInterruptEmulation", "Other",
                           "ExternalInterruptEmulation"}

EcallWithMessage ==
  vm_log'.iter.exit = "Ecall" /\ vm_log'.iter.msg # "None"
\* the exit of the iteration just made is a page fault that handle_plic
\* emulated
PlicHandled ==
  /\ vm_log'.iter.exit = "PageFault"
  /\ vm_log'.fatal = "none"
  /\ vm_log'.iter.fault[1].priv_level = "Supervisor"
  /\ vm_log'.iter.fault[1].fault_addr \in 201326592..268435455

\* C21: at every guest entry made by VM::run advance_pc is false and
\* instruction_length is 4; after the exit advance_pc is true exactly when
\* the exit was an ecall carrying an SBI message or a PLIC page fault that
\* was handled, so it is false after TimerInterruptEmulation,
\* ExternalInterruptEmulation and unmatched exits; instruction_length is
\* other than 4 only after a handled PLIC page fault on a 2-byte
\* instruction, and then it is 2.
C21_AdvancePcDiscipline ==
  [][VmRunStep =>
       /\ vm_log'.iter.entry_advance_pc = Some(FALSE)
       /\ vm_log'.iter.entry_instruction_length = Some(4)
       /\ vm'.state.advance_pc <=> (EcallWithMessage \/ PlicHandled)
       /\ vm_log'.iter.exit \in {"TimerInterruptEmulation", "Other",
                                 "ExternalInterruptEmulation"} =>
            ~vm'.state.advance_pc
       /\ vm'.state.instruction_length # 4 =>
            /\ PlicHandled
            /\ TrappingWord % 4 # 3
            /\ vm'.state.instruction_length = 2
       /\ PlicHandled /\ TrappingWord % 4 = 3 =>
            vm'.state.instruction_length = 4]_vars
\* an entry made on coming round the loop after an emulated 4-byte
\* instruction (advance_pc was set, the PC was advanced to 68, and the flag
\* is false again at the entry) that ends in a PLIC fault on c.lw: the
\* length left is 2
C21_Witness ==
  /\ vm_log.iter.exit = "PageFault"
  /\ vm_log.iter.fault[1].inst = 16656
  /\ ~vm_log.iter.new_call
  /\ vm_log.iter.entry_pc = Some(EntryPc + 4)
  /\ vm_log.iter.entry_advance_pc = Some(FALSE)
  /\ vm_log.iter.entry_instruction_length = Some(4)
  /\ vm.state.advance_pc
  /\ vm.state.instruction_length = 2

\* the head of pending_events is an exception
HeadException == pending_events # <<>> /\ Head(pending_events)[1] < 32
\* interrupt-window exiting in the current VMCS
WindowBit == INTERRUPT_WINDOW_EXITING \in vmcs[cur].primary_ctls

\* C22: when run is called on a launched vCPU with an exception (vector
\* below 32) at the head of pending_events and a VMCS current, that event,
\* with its error code, is injected and popped whatever the guest's
\* RFLAGS.IF and interruptibility state are, the entry delivers it, and the
\* injector does not set interrupt-window exiting: the bit is at the entry
\* what it was at the call.
C22_ExceptionsUngated ==
  [][RunStep /\ launched /\ HeadException /\ cur # NoVmcs =>
       /\ InjectsHead
       /\ ~last'.armed
       /\ last'.entered => last'.entry_window = WindowBit]_vars
\* #GP with error code 0 was injected while the guest's interrupts were
\* blocked, and delivered by the entry, which was made with
\* interrupt-window exiting clear
C22_Witness ==
  /\ run_calls > 1
  /\ last.injected = Some(<<13, Some(0)>>)
  /\ ~last.open_at_injection
  /\ last.entered
  /\ last.delivered = Some(<<13, Some(0)>>)
  /\ ~last.entry_window
  /\ ~last.armed

\* C23: at construction guest_xcr0 = host_xcr0 and guest_xss = host_xss, so
\* the first entry is made with the host's XCR0 and IA32_XSS; afterwards, in
\* any sequence of run, queue_event, bind and unbind, host_xcr0, host_xss
\* and guest_xss never change, and guest_xcr0 changes only in a call of run
\* whose exit is an XSETBV on XCR index 0 with a value that satisfies the
\* XCR0 rules, to that value.
C23_XstateFrame ==
  /\ [](run_calls = 0 => /\ xstate.guest_xcr0 = xstate.host_xcr0
                         /\ xstate.guest_xss = xstate.host_xss)
  /\ [](run_calls = 1 /\ last.entered =>
          /\ last.entry_xcr0 = Some(xstate.host_xcr0)
          /\ last.entry_xss = Some(xstate.host_xss))
  /\ [][/\ xstate'.host_xcr0 = xstate.host_xcr0
        /\ xstate'.host_xss = xstate.host_xss
        /\ xstate'.guest_xss = xstate.guest_xss]_vars
  /\ [][xstate'.guest_xcr0 # xstate.guest_xcr0 =>
          /\ XsetbvStep
          /\ last'.entered
          /\ Xcr0RulesHold(EdxEax(guest_regs'))
          /\ xstate'.guest_xcr0 = EdxEax(guest_regs')]_vars
\* an XSETBV has made guest_xcr0 differ from host_xcr0, and a later call of
\* run, entered with the guest's value and ended by another exit, has left
\* all four fields alone and the host's values in the processor
C23_Witness ==
  /\ xstate.guest_xcr0 = {0, 1, 2}
  /\ xstate.host_xcr0 = {0, 1}
  /\ xstate.guest_xss = xstate.host_xss
  /\ last.entered
  /\ last.exit_reason = "CPUID"
  /\ last.entry_xcr0 = Some({0, 1, 2})
  /\ xcr0 = {0, 1}
  /\ queued # <<>>
  /\ panic = "none"

\* this step is a call of run whose entry ends with an EXCEPTION_NMI exit
ExceptionNmiStep ==
  /\ RunStep
  /\ last'.entered
  /\ last'.exit_reason = "EXCEPTION_NMI"
\* pending_events as the injector of this call left it
QueueAfterInjection ==
  IF last'.injected = None THEN pending_events ELSE Tail(pending_events)

EntryFailureStep ==
  /\ RunStep
  /\ last'.exit_reason # "none"
  /\ ~last'.entered
\* no exit handler has acted: the queue is as the injector left it, nothing
\* was queued, and registers, RIP, controls and extended state are as
\* before the handler
NoHandlerEffect ==
  /\ pending_events' = QueueAfterInjection
  /\ queued' = queued
  /\ xstate' = xstate
  /\ vmcs'[cur'].rip = IF last'.entered THEN last'.exit_rip[1] ELSE vmcs[cur].rip
  /\ vmcs'[cur'].primary_ctls \ {INTERRUPT_WINDOW_EXITING}
       = vmcs[cur].primary_ctls \ {INTERRUPT_WINDOW_EXITING}
  /\ (INTERRUPT_WINDOW_EXITING \in vmcs'[cur'].primary_ctls)
       = (last'.armed \/ INTERRUPT_WINDOW_EXITING \in vmcs[cur].primary_ctls)
  /\ guest_regs' = IF last'.entered THEN last'.exit_regs[1] ELSE guest_regs
\* run does not return: it has panicked, and the VMM gets no value
NoReturn ==
  /\ panic' # "none"
  /\ ~last'.returned
  /\ ret' = ret

\* C25: a VM exit with the entry-failure bit set makes run panic whatever
\* the exit reason is, before any handler of a reason has acted; a
\* CR_ACCESS exit makes run panic too; in neither case does run return.
C25_FatalExits ==
  [][/\ EntryFailureStep =>
          /\ panic' = "VM entry failed"
          /\ NoHandlerEffect
          /\ NoReturn
     /\ RunStep /\ last'.entered /\ last'.exit_reason = "CR_ACCESS" =>
          /\ panic' = "Guest's access to cr not allowed"
          /\ NoHandlerEffect
          /\ NoReturn]_vars
\* an entry of a launched vCPU has failed with exit reason EXCEPTION_NMI:
\* run has panicked and no event was queued
C25_Witness ==
  /\ panic = "VM entry failed"
  /\ run_calls > 1
  /\ last.instr = "vmresume"
  /\ last.exit_reason = "EXCEPTION_NMI"
  /\ ~last.entered
  /\ ~last.returned
  /\ queued = <<>>
  /\ pending_events = <<>>

\* the panic of run for a built-in handler that returned Err
HandlerFailedPanic ==
  "VmxVcpu failed to handle a VM-exit that should be handled by itself"

\* C26: when a built-in handler returns Err, run panics and does not
\* return: an XSETBV exit on an XCR index other than 0 gives NotSupported,
\* one on index 0 with a value that breaks the XCR0 rules gives
\* InvalidParam, and any handler result other than Ok ends in the panic;
\* what run returns is None or the exit information, never an error.
C26_HandlerErrPanics ==
  [][RunStep =>
       /\ last'.entered /\ last'.exit_reason = "XSETBV"
            /\ ~IndexZero(guest_regs') => last'.result = "NotSupported"
       /\ XsetbvStep /\ last'.entered /\ ~Xcr0RulesHold(EdxEax(guest_regs')) =>
            last'.result = "InvalidParam"
       /\ last'.result \notin {"none", "Ok"} =>
            /\ panic' = HandlerFailedPanic
            /\ ~last'.returned
            /\ ret' = ret
       /\ last'.returned =>
            /\ last'.result \in {"none", "Ok"}
            /\ ret' # None => ret'[1].exit_reason = last'.exit_reason
       /\ panic' = "none" => last'.returned]_vars
\* after an XSETBV that was accepted, an XSETBV on another XCR index has
\* ended run with the panic
C26_Witness ==
  /\ panic = HandlerFailedPanic
  /\ last.exit_reason = "XSETBV"
  /\ last.result = "NotSupported"
  /\ ~IndexZero(guest_regs)
  /\ ~last.returned
  /\ xstate.guest_xcr0 # xstate.host_xcr0

\* this step is an iteration whose exit is a page fault
PageFaultStep == VmRunStep /\ vm_log'.iter.exit = "PageFault"
\* the fault address lies in 0x0C00_0000 .. 0x0FFF_FFFF
InWindow ==
  /\ vm_log'.iter.fault[1].fault_addr >= 201326592
  /\ vm_log'.iter.fault[1].fault_addr < 268435456
AtUserLevel == vm_log'.iter.fault[1].priv_level = "User"
\* run has panicked with nothing emulated: PLIC and registers are as the
\* exit left them and no advance of the PC is left behind
FatalFault(why) ==
  /\ vm_log'.fatal = why
  /\ NothingEmulated
  /\ ~vm'.state.advance_pc
  /\ vm'.state.instruction_length = 4
  /\ ~vm_log'.iter.returned

\* C27: the PLIC's base is 0x0C00_0000; a page fault is emulated only if it
\* is a supervisor fault whose address lies in the half-open window
\* [base, base + 0x0400_0000); a supervisor fault at any other address, and
\* a user fault at any address, make run panic with the PLIC and the guest
\* registers unmodified and advance_pc not set.
C27_FaultsOutsideWindow ==
  [][/\ vm.plic.base = 201326592
     /\ PageFaultStep =>
          /\ vm_log'.fatal = "none" => InWindow /\ ~AtUserLevel
          /\ ~AtUserLevel /\ ~InWindow => FatalFault("Page fault: PageFault")
          /\ AtUserLevel => FatalFault("User page fault")]_vars
\* after a store to a PLIC register in an earlier iteration, a fault at
\* base + 0x0400_0000 has ended run
C27_Witness ==
  /\ vm_log.fatal = "Page fault: PageFault"
  /\ vm_log.iter.fault[1].fault_addr = 268435456
  /\ ~vm.state.advance_pc
  /\ vm.plic.regs # <<>>
  /\ vm_log.iters > 2

\* the exit of the iteration just made is a call whose answer is the
\* firmware's error and value as a pair
PairForwarded ==
  /\ vm_log'.iter.exit = "Ecall"
  /\ \/ vm_log'.iter.msg = "RemoteFence"
     \/ /\ vm_log'.iter.msg = "PMU"
        /\ vm_log'.iter.function \in {"GetCounterInfo", "StopCounter"}
\* the exit of the iteration just made is a call whose answer is the
\* firmware's value alone
ValueForwarded ==
  /\ vm_log'.iter.exit = "Ecall"
  /\ \/ vm_log'.iter.msg = "Base"
     \/ /\ vm_log'.iter.msg = "PMU"
        /\ vm_log'.iter.function = "GetNumCounters"
\* the iteration made before this one was a forwarded call
AfterForwarded ==
  /\ vm_log.running
  /\ vm_log.iter.exit = "Ecall"
  /\ vm_log.iter.msg \in {"Base", "RemoteFence", "PMU"}

\* C28: after a remote fence and after PMU GetCounterInfo and StopCounter
\* the guest's A0 and A1 are the firmware's error and value; after every
\* Base function and after PMU GetNumCounters A1 is the firmware's result
\* and A0 is 0; these handlers change no other register, the loop goes on,
\* and the guest is entered next with exactly the registers they left.
C28_FirmwarePassThrough ==
  [][VmRunStep =>
       /\ PairForwarded =>
            /\ SnapshotGprs'[A0] = vm_log'.iter.fw[1].error
            /\ SnapshotGprs'[A1] = vm_log'.iter.fw[1].value
       /\ ValueForwarded =>
            /\ SnapshotGprs'[A0] = {}
            /\ SnapshotGprs'[A1] = vm_log'.iter.fw[1].value
       /\ PairForwarded \/ ValueForwarded =>
            /\ \A i \in GprIndices \ {A0, A1} : SnapshotGprs'[i] = ExitGprs[i]
            /\ vm_log'.running
            /\ vm_log'.fatal = "none"
       /\ AfterForwarded =>
            vm_log'.iter.entry_gprs = Some(SnapshotGprs)]_vars
\* a guest entered with the error of a forwarded call in A0 asks for the
\* specification version and is answered 2.1 in A1, with 0 in A0
C28_Witness ==
  /\ vm_log.iter.entry_gprs # None
  /\ vm_log.iter.entry_gprs[1][A0] = 1..63
  /\ vm_log.iter.entry_gprs[1][A1] = {}
  /\ vm_log.iter.exit = "Ecall"
  /\ vm_log.iter.msg = "Base"
  /\ vm_log.iter.function = "GetSepcificationVersion"
  /\ vm_log.iter.fw = Some([error |-> {}, value |-> {0, 25}])
  /\ SnapshotGprs[A0] = {}
  /\ SnapshotGprs[A1] = {0, 25}

\* vCPU i has been run, and the exit of its last iteration was emulated: an
\* ecall with an SBI message or a page fault (a page fault that is not a
\* handled PLIC access ends the program, so none is followed by an entry)
OwnEmulated(i) ==
  \/ /\ vm_log.own[i].iter.exit = "Ecall"
     /\ vm_log.own[i].iter.msg # "None"
  \/ vm_log.own[i].iter.exit = "PageFault"
\* the length of the instruction vCPU i trapped on in its last iteration
OwnLength(i) ==
  IF vm_log.own[i].iter.exit = "PageFault"
    THEN LET f == vm_log.own[i].iter.fault[1]
         IN instruction_length((IF f.inst # 0 THEN f.inst ELSE f.mem[1])
                               % 65536)
    ELSE 4
\* this step is an iteration for vCPU i
RunsVcpu(i) == VmRunStep /\ vm_log'.iter.vcpu_id = Some(i)
\* vCPU i has been run before
RanBefore(i) == vm_log.own[i].iter.exit # "none"

\* C29: a vCPU whose last exit was emulated is entered next at the PC of
\* that exit plus the length of the trapping instruction, whether run came
\* round its loop or returned in between, and a vCPU whose last exit was
\* not emulated is entered at the PC of that exit: the PC is advanced once
\* for an emulated exit and not at all otherwise.
C29_ExactlyOnceAdvance ==
  [][\A i \in VcpuIds :
       RunsVcpu(i) /\ RanBefore(i) =>
         vm_log'.iter.entry_pc =
           Some(vm_log.own[i].iter.exit_pc[1]
                + IF OwnEmulated(i) THEN OwnLength(i) ELSE 0)]_vars

\* C30: with two vCPUs run in any order, a vCPU that has been run is entered
\* with the register snapshot its own last iteration left, its PC at the
\* entry is its PC advanced by what its own last iteration left pending
\* (nothing for a vCPU never run), and the iteration leaves the other
\* vCPU's registers and PC alone.
C30_VcpuIsolation ==
  [][\A i \in VcpuIds :
       RunsVcpu(i) =>
         /\ RanBefore(i) =>
              vm_log'.iter.entry_gprs =
                Some(vm_log.own[i].state.general_purpose_registers)
         /\ vm_log'.iter.entry_pc =
              Some(vm.vcpus[i].sepc
                   + IF vm_log.own[i].state.advance_pc
                       THEN vm_log.own[i].state.instruction_length ELSE 0)
         /\ \A j \in VcpuIds \ {i} : vm'.vcpus[j] = vm.vcpus[j]]_vars

\* interrupt-window exiting is set in the VMCS id
WindowBitOf(id) == INTERRUPT_WINDOW_EXITING \in vmcs[id].primary_ctls
\* the primary controls of the VMCS id other than interrupt-window exiting
OtherControls(id) == vmcs[id].primary_ctls \ {INTERRUPT_WINDOW_EXITING}
\* this step is a call of run on a launched vCPU whose injector finds an
\* external interrupt at the head of the queue and the guest's interrupts
\* blocked, in the VMCS id
ArmsWindow(id) ==
  /\ RunStep
  /\ launched
  /\ id = cur
  /\ pending_events # <<>>
  /\ Head(pending_events)[1] >= 32
  /\ ~allow_interrupt(St)
  /\ last'.armed
  /\ last'.injected = None
\* this step is a call of run whose entry, made with the VMCS id, ends with
\* an INTERRUPT_WINDOW exit
HandlesWindowExit(id) ==
  /\ RunStep
  /\ id = cur
  /\ last'.entered
  /\ last'.exit_reason = "INTERRUPT_WINDOW"

\* C31: interrupt-window exiting goes from clear to set only in a call of
\* run whose injector finds a head of vector >= 32 with interrupts blocked,
\* and from set to clear only in a call of run that handles an
\* INTERRUPT_WINDOW exit; queue_event, binding, a call that injects and pops
\* an event and the handlers of all other exits leave the bit as it is, so
\* once armed it is still set after every call that does not end with an
\* INTERRUPT_WINDOW exit, also a call that injects the gated event.  No
\* other primary control is ever changed.
C31_WindowLifeCycle ==
  [][\A id \in VmcsIds :
       /\ ~WindowBitOf(id) /\ WindowBitOf(id)' => ArmsWindow(id)
       /\ WindowBitOf(id) /\ ~WindowBitOf(id)' => HandlesWindowExit(id)
       /\ ~RunStep => WindowBitOf(id)' = WindowBitOf(id)
       /\ RunStep /\ last'.injected # None
            /\ last'.exit_reason # "INTERRUPT_WINDOW" =>
            WindowBitOf(id)' = WindowBitOf(id)
       /\ RunStep /\ ~last'.armed /\ last'.exit_reason # "INTERRUPT_WINDOW" =>
            WindowBitOf(id)' = WindowBitOf(id)
       /\ RunStep /\ id = cur /\ (last'.armed \/ WindowBitOf(id))
            /\ last'.exit_reason # "INTERRUPT_WINDOW" =>
            WindowBitOf(id)'
       /\ OtherControls(id)' = OtherControls(id)]_vars
\* the window was armed for a blocked interrupt by an earlier call; the
\* guest then left on another exit with its interrupts unblocked, and this
\* call has injected the interrupt and entered the guest, which did not
\* leave on an INTERRUPT_WINDOW exit: the bit is still set
C31_Witness ==
  /\ last.injected # None
  /\ last.injected[1][1] >= 32
  /\ ~last.armed
  /\ last.entered
  /\ last.entry_window
  /\ last.delivered = last.injected
  /\ last.exit_reason \notin {"INTERRUPT_WINDOW", "none"}
  /\ WindowArmed
  /\ panic = "none"
=============================================================================
